---- MODULE Spec2Model ----
(***************************************************************************)
(* Model of the identifier extraction engine (modules/utils.py) and the    *)
(* engagement / performance scoring engine (main.py, modules/threads.py)   *)
(* of the YouTube OSINT tool.                                              *)
(*                                                                         *)
(* Text is a sequence of one-character strings.  The regular expressions   *)
(* of extract_social_media are syntax trees matched by a backtracking      *)
(* matcher with the semantics of Python's re (leftmost match, greedy       *)
(* quantifiers, ordered alternation).  Scores are exact rationals; a       *)
(* rounded score is a rational with a whole number of hundredths.          *)
(***************************************************************************)
EXTENDS Integers, Sequences, FiniteSets, TLC

VARIABLES
    hashseed,   \* per interpreter run: the string hash seed (PYTHONHASHSEED)
    text,       \* the text handed to extract_social_media
    cleaned,    \* per run: <<the mapping extract_social_media returned>>, or <<>>
    video,      \* the metadata record handed to the scorers
    scored      \* what main.py's and threads.py's scorers returned for it

vars == <<hashseed, text, cleaned, video, scored>>

(***************************************************************************)
(* Characters                                                              *)
(***************************************************************************)
Lower == {"a","b","c","d","e","f","g","h","i","j","k","l","m",
          "n","o","p","q","r","s","t","u","v","w","x","y","z"}
Upper == {"A","B","C","D","E","F","G","H","I","J","K","L","M",
          "N","O","P","Q","R","S","T","U","V","W","X","Y","Z"}
Digit == {"0","1","2","3","4","5","6","7","8","9"}
\* \s and str.strip(): the whitespace characters
Space == {" ", "\t", "\n", "\r", "\f"}
\* \w and the word characters of \b
Word  == Lower \cup Upper \cup Digit \cup {"_"}

(***************************************************************************)
(* Regular expression syntax trees                                         *)
(***************************************************************************)
Inf == 0 - 1   \* an unbounded repeat: +, *, {n,}

Lit(s)          == [t |-> "lit", s |-> s]
Rep(c, lo, hi)  == [t |-> "rep", c |-> c, lo |-> lo, hi |-> hi]
Opt(r)          == [t |-> "opt", r |-> r]
Alt(rs)         == [t |-> "alt", rs |-> rs]
Cat(rs)         == [t |-> "cat", rs |-> rs]
Grp(k, r)       == [t |-> "grp", k |-> k, r |-> r]
WordB           == [t |-> "wb"]
GrpEnd(k, from) == [t |-> "end", k |-> k, from |-> from]

NoMatch == [ok |-> FALSE, e |-> 0, g |-> <<>>]

HasPrefix(s, i, lit) ==
    /\ i + Len(lit) - 1 <= Len(s)
    /\ \A k \in 1..Len(lit) : s[i + k - 1] = lit[k]

RECURSIVE Run(_, _, _, _)
\* the number of characters of class c at s[i..], at most hi
Run(s, i, c, hi) ==
    IF hi = 0 \/ i > Len(s) THEN 0
    ELSE IF s[i] \in c THEN 1 + Run(s, i + 1, c, IF hi = Inf THEN Inf ELSE hi - 1)
    ELSE 0

IsWordAt(s, i) == i >= 1 /\ i <= Len(s) /\ s[i] \in Word

RECURSIVE Match(_, _, _, _)
RECURSIVE RepDown(_, _, _, _, _, _)
RECURSIVE TryAlt(_, _, _, _, _, _)
RECURSIVE MatchesAlone(_, _, _, _)

MinOf(S) == CHOOSE k \in S : \A j \in S : k <= j

\* Match the stack of expressions at position i of s with captures g; the
\* first success in backtracking order, as sre's matcher finds it.
Match(stack, s, i, g) ==
    IF Len(stack) = 0 THEN [ok |-> TRUE, e |-> i, g |-> g]
    ELSE LET h == Head(stack)
             rest == Tail(stack)
         IN CASE h.t = "lit" ->
                   IF HasPrefix(s, i, h.s)
                   THEN Match(rest, s, i + Len(h.s), g) ELSE NoMatch
              [] h.t = "rep" -> RepDown(rest, s, i, g, Run(s, i, h.c, h.hi), h.lo)
              [] h.t = "opt" ->
                   LET r == Match(<<h.r>> \o rest, s, i, g)
                   IN IF r.ok THEN r ELSE Match(rest, s, i, g)
              [] h.t = "alt" ->
                   \* only a branch that matches here on its own can match
                   \* before rest; those are tried in the pattern's order
                   TryAlt(h.rs, {k \in 1..Len(h.rs) : MatchesAlone(h.rs[k], s, i, g)},
                          rest, s, i, g)
              [] h.t = "cat" -> Match(h.rs \o rest, s, i, g)
              [] h.t = "grp" -> Match(<<h.r, GrpEnd(h.k, i)>> \o rest, s, i, g)
              [] h.t = "end" ->
                   Match(rest, s, i, [g EXCEPT ![h.k] = SubSeq(s, h.from, i - 1)])
              [] h.t = "wb" ->
                   IF IsWordAt(s, i - 1) # IsWordAt(s, i)
                   THEN Match(rest, s, i, g) ELSE NoMatch

MatchesAlone(r, s, i, g) ==
    IF r.t = "lit" THEN HasPrefix(s, i, r.s) ELSE Match(<<r>>, s, i, g).ok

\* greedy repeat: the longest run first, then shorter ones
RepDown(rest, s, i, g, n, lo) ==
    IF n < lo THEN NoMatch
    ELSE LET r == Match(rest, s, i + n, g)
         IN IF r.ok THEN r ELSE RepDown(rest, s, i, g, n - 1, lo)

TryAlt(alts, cand, rest, s, i, g) ==
    IF cand = {} THEN NoMatch
    ELSE LET k == MinOf(cand)
             r == Match(<<alts[k]>> \o rest, s, i, g)
         IN IF r.ok THEN r ELSE TryAlt(alts, cand \ {k}, rest, s, i, g)

NoGroups(n) == [k \in 1..n |-> <<>>]

\* the positions of s at which re matches
MatchStarts(re, n, s) ==
    {p \in 1..(Len(s) + 1) : Match(<<re>>, s, p, NoGroups(n)).ok}

RECURSIVE FindFrom(_, _, _, _, _)
\* the non-overlapping matches of re in s from pos on, left to right: the
\* scan stops at the first position that matches and resumes at the match's
\* end (one further when the match is empty)
FindFrom(re, n, s, starts, pos) ==
    LET ahead == {p \in starts : p >= pos}
    IN IF ahead = {} THEN <<>>
       ELSE LET p == MinOf(ahead)
                r == Match(<<re>>, s, p, NoGroups(n))
            IN <<[start |-> p, e |-> r.e, g |-> r.g]>>
               \o FindFrom(re, n, s, starts, IF r.e > p THEN r.e ELSE p + 1)

\* a findall that returns the whole match whatever the groups (group 0)
Item_WholeMatch(n, s, m) == [tuple |-> FALSE, v |-> <<SubSeq(s, m.start, m.e - 1)>>]

\* re.findall's item for one match: the whole match when the pattern has no
\* group, the group when it has one, the tuple of groups otherwise
Item(n, s, m) ==
    IF n = 0 THEN [tuple |-> FALSE, v |-> <<SubSeq(s, m.start, m.e - 1)>>]
    ELSE IF n = 1 THEN [tuple |-> FALSE, v |-> <<m.g[1]>>]
    ELSE [tuple |-> TRUE, v |-> m.g]

findall(p, s) ==
    LET ms == FindFrom(p.re, p.n, s, MatchStarts(p.re, p.n, s), 1)
    IN [k \in 1..Len(ms) |-> Item(p.n, s, ms[k])]

(***************************************************************************)
(* The patterns of extract_social_media, in the order of the dict literal  *)
(***************************************************************************)
\* utils.py:26  email, pattern 1:
\*   \b[A-Za-z0-9._%+-]+@[A-Za-z0-9.-]+\.[A-Za-z]{2,}\b
pat_email_1 ==
    [n |-> 0, re |->
        Cat(<<WordB,
        Rep((Upper \cup Lower \cup Digit \cup {".","_","%","+","-"}), 1, Inf),
        Lit(<<"@">>), Rep((Upper \cup Lower \cup Digit \cup {".","-"}), 1, Inf),
        Lit(<<".">>), Rep((Upper \cup Lower), 2, Inf), WordB>>)]

\* a first twitter pattern that knows the URL form only, not the @-handle
pat_twitter_1_UrlOnly ==
    [n |-> 2, re |->
        Cat(<<Cat(<<Lit(<<"h","t","t","p">>), Opt(Lit(<<"s">>)),
        Lit(<<":","/","/">>), Opt(Lit(<<"w","w","w",".">>)),
        Alt(<<Lit(<<"t","w","i","t","t","e","r",".","c","o","m">>),
        Lit(<<"x",".","c","o","m">>)>>), Lit(<<"/">>), Grp(1,
        Rep((Upper \cup Lower \cup Digit \cup {"_"}), 1, 15))>>), WordB>>)]

\* utils.py:29  twitter, pattern 1:
\*   (?:https?://(?:www\.)?(?:twitter\.com|x\.com)/([A-Za-z0-9_]{1,15})|@([A-Za-z0-9_]{1,15}))\b
pat_twitter_1 ==
    [n |-> 2, re |->
        Cat(<<Alt(<<Cat(<<Lit(<<"h","t","t","p">>), Opt(Lit(<<"s">>)),
        Lit(<<":","/","/">>), Opt(Lit(<<"w","w","w",".">>)),
        Alt(<<Lit(<<"t","w","i","t","t","e","r",".","c","o","m">>),
        Lit(<<"x",".","c","o","m">>)>>), Lit(<<"/">>), Grp(1,
        Rep((Upper \cup Lower \cup Digit \cup {"_"}), 1, 15))>>),
        Cat(<<Lit(<<"@">>), Grp(2, Rep((Upper \cup Lower \cup Digit \cup {"_"}),
        1, 15))>>)>>), WordB>>)]

\* utils.py:30  twitter, pattern 2:
\*   twitter\.com/([A-Za-z0-9_]{1,15})
pat_twitter_2 ==
    [n |-> 1, re |->
        Cat(<<Lit(<<"t","w","i","t","t","e","r",".","c","o","m","/">>), Grp(1,
        Rep((Upper \cup Lower \cup Digit \cup {"_"}), 1, 15))>>)]

\* utils.py:33  instagram, pattern 1:
\*   (?:https?://(?:www\.)?instagram\.com/([A-Za-z0-9_.]{1,30})|@([A-Za-z0-9_.]{1,30}))\b
pat_instagram_1 ==
    [n |-> 2, re |->
        Cat(<<Alt(<<Cat(<<Lit(<<"h","t","t","p">>), Opt(Lit(<<"s">>)),
        Lit(<<":","/","/">>), Opt(Lit(<<"w","w","w",".">>)),
        Lit(<<"i","n","s","t","a","g","r","a","m",".","c","o","m","/">>), Grp(1,
        Rep((Upper \cup Lower \cup Digit \cup {"_","."}), 1, 30))>>),
        Cat(<<Lit(<<"@">>), Grp(2,
        Rep((Upper \cup Lower \cup Digit \cup {"_","."}), 1, 30))>>)>>), WordB>>)]

\* utils.py:34  instagram, pattern 2:
\*   instagram\.com/([A-Za-z0-9_.]{1,30})
pat_instagram_2 ==
    [n |-> 1, re |->
        Cat(<<Lit(<<"i","n","s","t","a","g","r","a","m",".","c","o","m","/">>),
        Grp(1, Rep((Upper \cup Lower \cup Digit \cup {"_","."}), 1, 30))>>)]

\* utils.py:37  facebook, pattern 1:
\*   (?:https?://(?:www\.)?facebook\.com/(?:pages/|profile\.php\?id=)?([A-Za-z0-9_.-]+)|fb\.com/([A-Za-z0-9_.-]+))
pat_facebook_1 ==
    [n |-> 2, re |->
        Alt(<<Cat(<<Lit(<<"h","t","t","p">>), Opt(Lit(<<"s">>)),
        Lit(<<":","/","/">>), Opt(Lit(<<"w","w","w",".">>)),
        Lit(<<"f","a","c","e","b","o","o","k",".","c","o","m","/">>),
        Opt(Alt(<<Lit(<<"p","a","g","e","s","/">>),
        Lit(<<"p","r","o","f","i","l","e",".","p","h","p","?","i","d","=">>)>>)),
        Grp(1, Rep((Upper \cup Lower \cup Digit \cup {"_",".","-"}), 1, Inf))>>),
        Cat(<<Lit(<<"f","b",".","c","o","m","/">>), Grp(2,
        Rep((Upper \cup Lower \cup Digit \cup {"_",".","-"}), 1, Inf))>>)>>)]

\* utils.py:38  facebook, pattern 2:
\*   facebook\.com/groups/([A-Za-z0-9_.-]+)
pat_facebook_2 ==
    [n |-> 1, re |->
        Cat(<<Lit(<<"f","a","c","e","b","o","o","k",".","c","o","m","/","g","r","o","u","p","s","/">>),
        Grp(1, Rep((Upper \cup Lower \cup Digit \cup {"_",".","-"}), 1, Inf))>>)]

\* utils.py:41  tiktok, pattern 1:
\*   (?:https?://(?:www\.)?tiktok\.com/@?([A-Za-z0-9_.]{1,24})|@([A-Za-z0-9_.]{1,24}))\b
pat_tiktok_1 ==
    [n |-> 2, re |->
        Cat(<<Alt(<<Cat(<<Lit(<<"h","t","t","p">>), Opt(Lit(<<"s">>)),
        Lit(<<":","/","/">>), Opt(Lit(<<"w","w","w",".">>)),
        Lit(<<"t","i","k","t","o","k",".","c","o","m","/">>), Opt(Lit(<<"@">>)),
        Grp(1, Rep((Upper \cup Lower \cup Digit \cup {"_","."}), 1, 24))>>),
        Cat(<<Lit(<<"@">>), Grp(2,
        Rep((Upper \cup Lower \cup Digit \cup {"_","."}), 1, 24))>>)>>), WordB>>)]

\* utils.py:42  tiktok, pattern 2:
\*   tiktok\.com/@?([A-Za-z0-9_.]{1,24})
pat_tiktok_2 ==
    [n |-> 1, re |->
        Cat(<<Lit(<<"t","i","k","t","o","k",".","c","o","m","/">>),
        Opt(Lit(<<"@">>)), Grp(1,
        Rep((Upper \cup Lower \cup Digit \cup {"_","."}), 1, 24))>>)]

\* utils.py:45  discord, pattern 1:
\*   (?:discord\.gg/([\w-]+)|discordapp\.com/invite/([\w-]+)|discord\.com/invite/([\w-]+))
pat_discord_1 ==
    [n |-> 3, re |->
        Alt(<<Cat(<<Lit(<<"d","i","s","c","o","r","d",".","g","g","/">>), Grp(1,
        Rep((Word \cup {"-"}), 1, Inf))>>),
        Cat(<<Lit(<<"d","i","s","c","o","r","d","a","p","p",".","c","o","m","/","i","n","v","i","t","e","/">>),
        Grp(2, Rep((Word \cup {"-"}), 1, Inf))>>),
        Cat(<<Lit(<<"d","i","s","c","o","r","d",".","c","o","m","/","i","n","v","i","t","e","/">>),
        Grp(3, Rep((Word \cup {"-"}), 1, Inf))>>)>>)]

\* utils.py:46  discord, pattern 2:
\*   discord\.gg/([\w-]+)
pat_discord_2 ==
    [n |-> 1, re |->
        Cat(<<Lit(<<"d","i","s","c","o","r","d",".","g","g","/">>), Grp(1,
        Rep((Word \cup {"-"}), 1, Inf))>>)]

\* utils.py:49  telegram, pattern 1:
\*   (?:t\.me/|telegram\.me/|telegram\.dog/)([A-Za-z0-9_]{5,32})
pat_telegram_1 ==
    [n |-> 1, re |->
        Cat(<<Alt(<<Lit(<<"t",".","m","e","/">>),
        Lit(<<"t","e","l","e","g","r","a","m",".","m","e","/">>),
        Lit(<<"t","e","l","e","g","r","a","m",".","d","o","g","/">>)>>), Grp(1,
        Rep((Upper \cup Lower \cup Digit \cup {"_"}), 5, 32))>>)]

\* utils.py:50  telegram, pattern 2:
\*   t\.me/([A-Za-z0-9_]{5,32})
pat_telegram_2 ==
    [n |-> 1, re |->
        Cat(<<Lit(<<"t",".","m","e","/">>), Grp(1,
        Rep((Upper \cup Lower \cup Digit \cup {"_"}), 5, 32))>>)]

\* utils.py:53  website, pattern 1:
\*   https?://(?:www\.)?([A-Za-z0-9_.-]+\.[A-Za-z]{2,})(?:/[A-Za-z0-9_.-]*)?
pat_website_1 ==
    [n |-> 1, re |->
        Cat(<<Lit(<<"h","t","t","p">>), Opt(Lit(<<"s">>)), Lit(<<":","/","/">>),
        Opt(Lit(<<"w","w","w",".">>)), Grp(1,
        Cat(<<Rep((Upper \cup Lower \cup Digit \cup {"_",".","-"}), 1, Inf),
        Lit(<<".">>), Rep((Upper \cup Lower), 2, Inf)>>)),
        Opt(Cat(<<Lit(<<"/">>),
        Rep((Upper \cup Lower \cup Digit \cup {"_",".","-"}), 0, Inf)>>))>>)]

\* utils.py:54  website, pattern 2:
\*   (?:www\.)?([A-Za-z0-9_.-]+\.[A-Za-z]{2,})
pat_website_2 ==
    [n |-> 1, re |->
        Cat(<<Opt(Lit(<<"w","w","w",".">>)), Grp(1,
        Cat(<<Rep((Upper \cup Lower \cup Digit \cup {"_",".","-"}), 1, Inf),
        Lit(<<".">>), Rep((Upper \cup Lower), 2, Inf)>>))>>)]

\* utils.py:57  phone, pattern 1:
\*   (?:\+?(?:1|44|91|61|86|49|33|81|82|55|52|34|39|31|46|47|45|43|41|48|35 ... 94|695|696|697|698|699)\s?)?[-.\s]?\(?\d{3}\)?[-.\s]?\d{3}[-.\s]?\d{4}
pat_phone_1 ==
    [n |-> 0, re |->
        Cat(<<Opt(Cat(<<Opt(Lit(<<"+">>)), Alt(<<Lit(<<"1">>), Lit(<<"4","4">>),
        Lit(<<"9","1">>), Lit(<<"6","1">>), Lit(<<"8","6">>), Lit(<<"4","9">>),
        Lit(<<"3","3">>), Lit(<<"8","1">>), Lit(<<"8","2">>), Lit(<<"5","5">>),
        Lit(<<"5","2">>), Lit(<<"3","4">>), Lit(<<"3","9">>), Lit(<<"3","1">>),
        Lit(<<"4","6">>), Lit(<<"4","7">>), Lit(<<"4","5">>), Lit(<<"4","3">>),
        Lit(<<"4","1">>), Lit(<<"4","8">>), Lit(<<"3","5","1">>),
        Lit(<<"3","5","3">>), Lit(<<"3","5","8">>), Lit(<<"3","7","2">>),
        Lit(<<"3","7","1">>), Lit(<<"3","7","0">>), Lit(<<"3","7","5">>),
        Lit(<<"3","8","0">>), Lit(<<"9","9","6">>), Lit(<<"9","9","5">>),
        Lit(<<"9","9","4">>), Lit(<<"9","9","3">>), Lit(<<"9","9","2">>),
        Lit(<<"9","7","6">>), Lit(<<"9","7","5">>), Lit(<<"9","7","4">>),
        Lit(<<"9","7","3">>), Lit(<<"9","7","2">>), Lit(<<"9","7","1">>),
        Lit(<<"9","6","8">>), Lit(<<"9","6","7">>), Lit(<<"9","6","6">>),
        Lit(<<"9","6","5">>), Lit(<<"9","6","4">>), Lit(<<"9","6","3">>),
        Lit(<<"9","6","2">>), Lit(<<"9","6","1">>), Lit(<<"8","8","0">>),
        Lit(<<"8","5","5">>), Lit(<<"8","5","6">>), Lit(<<"9","5">>),
        Lit(<<"9","4">>), Lit(<<"9","3">>), Lit(<<"9","2">>), Lit(<<"9","1">>),
        Lit(<<"9","0">>), Lit(<<"9","8">>), Lit(<<"2","0">>), Lit(<<"2","7">>),
        Lit(<<"2","3","4">>), Lit(<<"2","3","3">>), Lit(<<"2","3","2">>),
        Lit(<<"2","3","1">>), Lit(<<"2","2","5">>), Lit(<<"2","2","4">>),
        Lit(<<"2","2","3">>), Lit(<<"2","2","1">>), Lit(<<"2","2","0">>),
        Lit(<<"2","1","8">>), Lit(<<"2","1","3">>), Lit(<<"2","1","2">>),
        Lit(<<"2","1","1">>), Lit(<<"9","8">>), Lit(<<"9","7","1">>),
        Lit(<<"9","6","6">>), Lit(<<"9","6","5">>), Lit(<<"9","6","4">>),
        Lit(<<"9","6","3">>), Lit(<<"9","6","2">>), Lit(<<"9","6","1">>),
        Lit(<<"9","6","8">>), Lit(<<"9","6","7">>), Lit(<<"9","7","2">>),
        Lit(<<"9","7","3">>), Lit(<<"9","7","4">>), Lit(<<"9","7","5">>),
        Lit(<<"9","7","6">>), Lit(<<"9","7","7">>), Lit(<<"9","4">>),
        Lit(<<"9","3">>), Lit(<<"9","2">>), Lit(<<"9","1">>), Lit(<<"9","0">>),
        Lit(<<"8","1">>), Lit(<<"8","2">>), Lit(<<"8","6">>),
        Lit(<<"8","5","2">>), Lit(<<"8","5","3">>), Lit(<<"8","8","6">>),
        Lit(<<"6","5">>), Lit(<<"6","0">>), Lit(<<"6","3">>), Lit(<<"6","2">>),
        Lit(<<"8","4">>), Lit(<<"8","5","5">>), Lit(<<"8","5","6">>),
        Lit(<<"9","5">>), Lit(<<"6","7","3">>), Lit(<<"6","7","4">>),
        Lit(<<"6","7","5">>), Lit(<<"6","7","6">>), Lit(<<"6","7","9">>),
        Lit(<<"6","8","0">>), Lit(<<"6","8","5">>), Lit(<<"6","8","9">>),
        Lit(<<"6","8","2">>), Lit(<<"6","8","3">>), Lit(<<"6","8","6">>),
        Lit(<<"6","8","7">>), Lit(<<"6","8","9">>), Lit(<<"6","9","0">>),
        Lit(<<"6","9","1">>), Lit(<<"6","9","2">>), Lit(<<"6","9","9">>),
        Lit(<<"6","7","0">>), Lit(<<"6","7","2">>), Lit(<<"6","7","3">>),
        Lit(<<"6","7","4">>), Lit(<<"6","7","5">>), Lit(<<"6","7","6">>),
        Lit(<<"6","7","7">>), Lit(<<"6","7","8">>), Lit(<<"6","7","9">>),
        Lit(<<"6","8","0">>), Lit(<<"6","8","1">>), Lit(<<"6","8","2">>),
        Lit(<<"6","8","3">>), Lit(<<"6","8","4">>), Lit(<<"6","8","5">>),
        Lit(<<"6","8","6">>), Lit(<<"6","8","7">>), Lit(<<"6","8","8">>),
        Lit(<<"6","8","9">>), Lit(<<"6","9","0">>), Lit(<<"6","9","1">>),
        Lit(<<"6","9","2">>), Lit(<<"6","9","3">>), Lit(<<"6","9","4">>),
        Lit(<<"6","9","5">>), Lit(<<"6","9","6">>), Lit(<<"6","9","7">>),
        Lit(<<"6","9","8">>), Lit(<<"6","9","9">>)>>), Opt(Rep(Space, 1, 1))>>)),
        Opt(Rep((Space \cup {"-","."}), 1, 1)), Opt(Lit(<<"(">>)), Rep(Digit, 3,
        3), Opt(Lit(<<")">>)), Opt(Rep((Space \cup {"-","."}), 1, 1)), Rep(Digit,
        3, 3), Opt(Rep((Space \cup {"-","."}), 1, 1)), Rep(Digit, 4, 4)>>)]

\* utils.py:58  phone, pattern 2:
\*   (?:\+?\d{1,3}[-.\s]?\(?\d{3}\)?[-.\s]?\d{3}[-.\s]?\d{4})
pat_phone_2 ==
    [n |-> 0, re |->
        Cat(<<Opt(Lit(<<"+">>)), Rep(Digit, 1, 3),
        Opt(Rep((Space \cup {"-","."}), 1, 1)), Opt(Lit(<<"(">>)), Rep(Digit, 3,
        3), Opt(Lit(<<")">>)), Opt(Rep((Space \cup {"-","."}), 1, 1)), Rep(Digit,
        3, 3), Opt(Rep((Space \cup {"-","."}), 1, 1)), Rep(Digit, 4, 4)>>)]

\* utils.py:61  linkedin, pattern 1:
\*   (?:https?://(?:www\.)?linkedin\.com/(?:in/|company/)([A-Za-z0-9_-]+))
pat_linkedin_1 ==
    [n |-> 1, re |->
        Cat(<<Lit(<<"h","t","t","p">>), Opt(Lit(<<"s">>)), Lit(<<":","/","/">>),
        Opt(Lit(<<"w","w","w",".">>)),
        Lit(<<"l","i","n","k","e","d","i","n",".","c","o","m","/">>),
        Alt(<<Lit(<<"i","n","/">>), Lit(<<"c","o","m","p","a","n","y","/">>)>>),
        Grp(1, Rep((Upper \cup Lower \cup Digit \cup {"_","-"}), 1, Inf))>>)]

\* utils.py:62  linkedin, pattern 2:
\*   linkedin\.com/(?:in/|company/)([A-Za-z0-9_-]+)
pat_linkedin_2 ==
    [n |-> 1, re |->
        Cat(<<Lit(<<"l","i","n","k","e","d","i","n",".","c","o","m","/">>),
        Alt(<<Lit(<<"i","n","/">>), Lit(<<"c","o","m","p","a","n","y","/">>)>>),
        Grp(1, Rep((Upper \cup Lower \cup Digit \cup {"_","-"}), 1, Inf))>>)]

\* utils.py:65  youtube, pattern 1:
\*   (?:https?://(?:www\.)?youtube\.com/(?:channel/|c/|user/|@)([A-Za-z0-9_-]+))
pat_youtube_1 ==
    [n |-> 1, re |->
        Cat(<<Lit(<<"h","t","t","p">>), Opt(Lit(<<"s">>)), Lit(<<":","/","/">>),
        Opt(Lit(<<"w","w","w",".">>)),
        Lit(<<"y","o","u","t","u","b","e",".","c","o","m","/">>),
        Alt(<<Lit(<<"c","h","a","n","n","e","l","/">>), Lit(<<"c","/">>),
        Lit(<<"u","s","e","r","/">>), Lit(<<"@">>)>>), Grp(1,
        Rep((Upper \cup Lower \cup Digit \cup {"_","-"}), 1, Inf))>>)]

\* utils.py:66  youtube, pattern 2:
\*   youtube\.com/(?:channel/|c/|user/|@)([A-Za-z0-9_-]+)
pat_youtube_2 ==
    [n |-> 1, re |->
        Cat(<<Lit(<<"y","o","u","t","u","b","e",".","c","o","m","/">>),
        Alt(<<Lit(<<"c","h","a","n","n","e","l","/">>), Lit(<<"c","/">>),
        Lit(<<"u","s","e","r","/">>), Lit(<<"@">>)>>), Grp(1,
        Rep((Upper \cup Lower \cup Digit \cup {"_","-"}), 1, Inf))>>)]

\* utils.py:69  reddit, pattern 1:
\*   (?:https?://(?:www\.)?reddit\.com/(?:u/|user/|r/)([A-Za-z0-9_-]+))
pat_reddit_1 ==
    [n |-> 1, re |->
        Cat(<<Lit(<<"h","t","t","p">>), Opt(Lit(<<"s">>)), Lit(<<":","/","/">>),
        Opt(Lit(<<"w","w","w",".">>)),
        Lit(<<"r","e","d","d","i","t",".","c","o","m","/">>),
        Alt(<<Lit(<<"u","/">>), Lit(<<"u","s","e","r","/">>),
        Lit(<<"r","/">>)>>), Grp(1,
        Rep((Upper \cup Lower \cup Digit \cup {"_","-"}), 1, Inf))>>)]

\* utils.py:70  reddit, pattern 2:
\*   reddit\.com/(?:u/|user/|r/)([A-Za-z0-9_-]+)
pat_reddit_2 ==
    [n |-> 1, re |->
        Cat(<<Lit(<<"r","e","d","d","i","t",".","c","o","m","/">>),
        Alt(<<Lit(<<"u","/">>), Lit(<<"u","s","e","r","/">>),
        Lit(<<"r","/">>)>>), Grp(1,
        Rep((Upper \cup Lower \cup Digit \cup {"_","-"}), 1, Inf))>>)]

\* utils.py:73  twitch, pattern 1:
\*   (?:https?://(?:www\.)?twitch\.tv/([A-Za-z0-9_]+))
pat_twitch_1 ==
    [n |-> 1, re |->
        Cat(<<Lit(<<"h","t","t","p">>), Opt(Lit(<<"s">>)), Lit(<<":","/","/">>),
        Opt(Lit(<<"w","w","w",".">>)),
        Lit(<<"t","w","i","t","c","h",".","t","v","/">>), Grp(1,
        Rep((Upper \cup Lower \cup Digit \cup {"_"}), 1, Inf))>>)]

\* utils.py:74  twitch, pattern 2:
\*   twitch\.tv/([A-Za-z0-9_]+)
pat_twitch_2 ==
    [n |-> 1, re |->
        Cat(<<Lit(<<"t","w","i","t","c","h",".","t","v","/">>), Grp(1,
        Rep((Upper \cup Lower \cup Digit \cup {"_"}), 1, Inf))>>)]

\* utils.py:77  snapchat, pattern 1:
\*   (?:https?://(?:www\.)?snapchat\.com/add/([A-Za-z0-9_.-]+))
pat_snapchat_1 ==
    [n |-> 1, re |->
        Cat(<<Lit(<<"h","t","t","p">>), Opt(Lit(<<"s">>)), Lit(<<":","/","/">>),
        Opt(Lit(<<"w","w","w",".">>)),
        Lit(<<"s","n","a","p","c","h","a","t",".","c","o","m","/","a","d","d","/">>),
        Grp(1, Rep((Upper \cup Lower \cup Digit \cup {"_",".","-"}), 1, Inf))>>)]

\* utils.py:78  snapchat, pattern 2:
\*   snapchat\.com/add/([A-Za-z0-9_.-]+)
pat_snapchat_2 ==
    [n |-> 1, re |->
        Cat(<<Lit(<<"s","n","a","p","c","h","a","t",".","c","o","m","/","a","d","d","/">>),
        Grp(1, Rep((Upper \cup Lower \cup Digit \cup {"_",".","-"}), 1, Inf))>>)]

\* utils.py:81  pinterest, pattern 1:
\*   (?:https?://(?:www\.)?pinterest\.(?:com|co\.uk|fr|de|it|es)/(?:[A-Za-z0-9_.-]+))
pat_pinterest_1 ==
    [n |-> 0, re |->
        Cat(<<Lit(<<"h","t","t","p">>), Opt(Lit(<<"s">>)), Lit(<<":","/","/">>),
        Opt(Lit(<<"w","w","w",".">>)),
        Lit(<<"p","i","n","t","e","r","e","s","t",".">>),
        Alt(<<Lit(<<"c","o","m">>), Lit(<<"c","o",".","u","k">>),
        Lit(<<"f","r">>), Lit(<<"d","e">>), Lit(<<"i","t">>),
        Lit(<<"e","s">>)>>), Lit(<<"/">>),
        Rep((Upper \cup Lower \cup Digit \cup {"_",".","-"}), 1, Inf)>>)]

\* utils.py:82  pinterest, pattern 2:
\*   pinterest\.(?:com|co\.uk|fr|de|it|es)/([A-Za-z0-9_.-]+)
pat_pinterest_2 ==
    [n |-> 1, re |->
        Cat(<<Lit(<<"p","i","n","t","e","r","e","s","t",".">>),
        Alt(<<Lit(<<"c","o","m">>), Lit(<<"c","o",".","u","k">>),
        Lit(<<"f","r">>), Lit(<<"d","e">>), Lit(<<"i","t">>),
        Lit(<<"e","s">>)>>), Lit(<<"/">>), Grp(1,
        Rep((Upper \cup Lower \cup Digit \cup {"_",".","-"}), 1, Inf))>>)]

\* utils.py:85  github, pattern 1:
\*   (?:https?://(?:www\.)?github\.com/([A-Za-z0-9_.-]+)(?:/[A-Za-z0-9_.-]+)?)
pat_github_1 ==
    [n |-> 1, re |->
        Cat(<<Lit(<<"h","t","t","p">>), Opt(Lit(<<"s">>)), Lit(<<":","/","/">>),
        Opt(Lit(<<"w","w","w",".">>)),
        Lit(<<"g","i","t","h","u","b",".","c","o","m","/">>), Grp(1,
        Rep((Upper \cup Lower \cup Digit \cup {"_",".","-"}), 1, Inf)),
        Opt(Cat(<<Lit(<<"/">>),
        Rep((Upper \cup Lower \cup Digit \cup {"_",".","-"}), 1, Inf)>>))>>)]

\* utils.py:86  github, pattern 2:
\*   github\.com/([A-Za-z0-9_.-]+)(?:/[A-Za-z0-9_.-]+)?
pat_github_2 ==
    [n |-> 1, re |->
        Cat(<<Lit(<<"g","i","t","h","u","b",".","c","o","m","/">>), Grp(1,
        Rep((Upper \cup Lower \cup Digit \cup {"_",".","-"}), 1, Inf)),
        Opt(Cat(<<Lit(<<"/">>),
        Rep((Upper \cup Lower \cup Digit \cup {"_",".","-"}), 1, Inf)>>))>>)]

\* the category keys of the dict literal, in insertion order
Categories ==
    <<"email", "twitter", "instagram", "facebook",
      "tiktok", "discord", "telegram", "website",
      "phone", "linkedin", "youtube", "reddit",
      "twitch", "snapchat", "pinterest", "github">>

CategorySet == {Categories[k] : k \in 1..Len(Categories)}

\* the findall calls whose lists are concatenated for one category
PatternsOf(cat) ==
    CASE cat = "email" -> <<pat_email_1>>
      [] cat = "twitter" -> <<pat_twitter_1, pat_twitter_2>>
      [] cat = "instagram" -> <<pat_instagram_1, pat_instagram_2>>
      [] cat = "facebook" -> <<pat_facebook_1, pat_facebook_2>>
      [] cat = "tiktok" -> <<pat_tiktok_1, pat_tiktok_2>>
      [] cat = "discord" -> <<pat_discord_1, pat_discord_2>>
      [] cat = "telegram" -> <<pat_telegram_1, pat_telegram_2>>
      [] cat = "website" -> <<pat_website_1, pat_website_2>>
      [] cat = "phone" -> <<pat_phone_1, pat_phone_2>>
      [] cat = "linkedin" -> <<pat_linkedin_1, pat_linkedin_2>>
      [] cat = "youtube" -> <<pat_youtube_1, pat_youtube_2>>
      [] cat = "reddit" -> <<pat_reddit_1, pat_reddit_2>>
      [] cat = "twitch" -> <<pat_twitch_1, pat_twitch_2>>
      [] cat = "snapchat" -> <<pat_snapchat_1, pat_snapchat_2>>
      [] cat = "pinterest" -> <<pat_pinterest_1, pat_pinterest_2>>
      [] cat = "github" -> <<pat_github_1, pat_github_2>>

(***************************************************************************)
(* list(set(...)): the iteration order of a set of strings (or of tuples   *)
(* of strings) follows the strings' hashes, which the interpreter salts    *)
(* with a seed drawn when it starts.  A seed selects one enumeration of    *)
(* each set; the seeds 0..n!-1 give every enumeration of a set of n.       *)
(***************************************************************************)
RECURSIVE Enum(_)
Enum(S) ==
    IF S = {} THEN <<>>
    ELSE LET x == CHOOSE y \in S : TRUE IN <<x>> \o Enum(S \ {x})

RemoveAt(xs, k) == SubSeq(xs, 1, k - 1) \o SubSeq(xs, k + 1, Len(xs))

RECURSIVE Permute(_, _)
Permute(seed, xs) ==
    IF Len(xs) = 0 THEN <<>>
    ELSE LET k == (seed % Len(xs)) + 1
         IN <<xs[k]>> \o Permute(seed \div Len(xs), RemoveAt(xs, k))

SeqRange(xs) == {xs[k] : k \in 1..Len(xs)}

\* list(set(xs)) in an interpreter whose hash seed is seed
ListOfSet(seed, xs) == Permute(seed, Enum(SeqRange(xs)))

RECURSIVE lstrip(_)
lstrip(s) == IF Len(s) > 0 /\ Head(s) \in Space THEN lstrip(Tail(s)) ELSE s

RECURSIVE rstrip(_)
rstrip(s) ==
    IF Len(s) > 0 /\ s[Len(s)] \in Space THEN rstrip(SubSeq(s, 1, Len(s) - 1)) ELSE s

\* str.strip()
strip(s) == rstrip(lstrip(s))

RECURSIVE Concat(_)
Concat(xss) == IF Len(xss) = 0 THEN <<>> ELSE Head(xss) \o Concat(Tail(xss))

\* utils.py:24-87: the list built for one key of the dict literal
DataOf(seed, cat, s) ==
    LET ps == PatternsOf(cat)
    IN Concat([k \in 1..Len(ps) |-> ListOfSet(seed, findall(ps[k], s))])

\* utils.py:98-99, 100-101: a candidate is kept, stripped, when it is
\* non-empty and not all whitespace
Kept(sub) == IF Len(sub) > 0 /\ Len(strip(sub)) > 0 THEN <<strip(sub)>> ELSE <<>>

\* utils.py:94-101: flatten the tuples of groups
FlatValues(values) ==
    Concat([k \in 1..Len(values) |->
              IF values[k].tuple
              THEN Concat([j \in 1..Len(values[k].v) |-> Kept(values[k].v[j])])
              ELSE Kept(values[k].v[1])])

RECURSIVE Unique(_, _)
\* utils.py:103-108: drop a value already seen, keeping the order
Unique(flat, seen) ==
    IF Len(flat) = 0 THEN <<>>
    ELSE IF Head(flat) \in seen THEN Unique(Tail(flat), seen)
    ELSE <<Head(flat)>> \o Unique(Tail(flat), seen \cup {Head(flat)})

\* a clean-up that keeps every flattened value
UniqueValues_NoDedup(flat) == flat

UniqueValues(flat) == Unique(flat, {})

\* a clean-up that leaves out the categories without a match
extract_social_media_OmitEmpty(seed, s) ==
    LET full == [cat \in CategorySet |-> UniqueValues(FlatValues(DataOf(seed, cat, s)))]
    IN [cat \in {c \in CategorySet : Len(full[c]) > 0} |-> full[cat]]

\* utils.py:14-113
extract_social_media(seed, s) ==
    [cat \in CategorySet |-> UniqueValues(FlatValues(DataOf(seed, cat, s)))]

(***************************************************************************)
(* Numbers.  A float of the program is modelled by the exact rational it   *)
(* approximates, kept in lowest terms: [n |-> numerator, d |-> denominator]*)
(***************************************************************************)
RECURSIVE GCD(_, _)
GCD(a, b) == IF b = 0 THEN a ELSE GCD(b, a % b)

Abs(x) == IF x < 0 THEN 0 - x ELSE x

Q(n, d) == LET g == GCD(Abs(n), d) IN [n |-> n \div g, d |-> d \div g]
QInt(k) == [n |-> k, d |-> 1]

QMul(a, b) ==
    LET g1 == GCD(Abs(a.n), b.d)
        g2 == GCD(Abs(b.n), a.d)
    IN Q((a.n \div g1) * (b.n \div g2), (a.d \div g2) * (b.d \div g1))

QAdd(a, b) ==
    LET g == GCD(a.d, b.d)
    IN Q(a.n * (b.d \div g) + b.n * (a.d \div g), (a.d \div g) * b.d)

QSub(a, b) == QAdd(a, [n |-> 0 - b.n, d |-> b.d])
QLe(a, b)  == a.n * b.d <= b.n * a.d
QLt(a, b)  == a.n * b.d < b.n * a.d
QMin(a, b) == IF QLe(a, b) THEN a ELSE b
QMax(a, b) == IF QLe(a, b) THEN b ELSE a

\* round(x, 2): the hundredth nearest to the float.  Where the rational lies
\* halfway between two hundredths the error of the float decides, and the
\* model keeps both; elsewhere the result is the one nearest hundredth.
round2(x) ==
    LET q  == x.n \div x.d
        r  == QMul(QInt(100), Q(x.n % x.d, x.d))
        h  == r.n \div r.d
        f  == r.n % r.d
        lo == 100 * q + h
    IN IF 2 * f = r.d THEN {Q(lo, 100), Q(lo + 1, 100)}
       ELSE IF 2 * f > r.d THEN {Q(lo + 1, 100)}
       ELSE {Q(lo, 100)}

\* math.log10 at the powers of ten, where it is exact
log10(v) ==
    QInt(CASE v = 1 -> 0
           [] v = 10 -> 1
           [] v = 100 -> 2
           [] v = 1000 -> 3
           [] v = 10000 -> 4
           [] v = 100000 -> 5
           [] v = 1000000 -> 6)

Max(a, b) == IF a >= b THEN a ELSE b

(***************************************************************************)
(* The metadata record.  published_at is the string's form and, when it    *)
(* parses, the whole days from the publish instant to datetime.now()       *)
(* (negative for a date in the future).  duration is a number of seconds,  *)
(* an ISO-8601 string or another string.                                   *)
(***************************************************************************)
\* datetime.fromisoformat(published_at.replace('Z', '+00:00')).  "basic" is
\* yt-dlp's YYYYMMDD on an interpreter that accepts the basic format (Python
\* 3.11 on), "basic_rejected" the same string on an older one.
fromisoformat(p) ==
    CASE p.form \in {"date", "datetime", "basic"} -> [ok |-> TRUE, aware |-> FALSE]
      [] p.form \in {"zulu", "offset"}   -> [ok |-> TRUE, aware |-> TRUE]
      [] OTHER                           -> [ok |-> FALSE, aware |-> FALSE]

\* main.py:866-871: the try block; a ValueError of the parse and the
\* TypeError of subtracting an aware datetime from the naive now() both end
\* in the bare except
AgeFactor(p) ==
    LET d == fromisoformat(p)
    IN IF ~d.ok THEN Q(1, 2)
       ELSE IF d.aware THEN Q(1, 2)
       ELSE QMax(QInt(0), QSub(QInt(1), Q(p.days, 365)))

\* main.py:874-880
ContentQualityFactor(v) ==
    QAdd(QAdd(QInt(1), IF v.tag_count > 0 THEN Q(2, 10) ELSE QInt(0)),
         IF v.description_length > 100 THEN Q(2, 10) ELSE QInt(0))

\* main.py:852-884
calculate_virality_score(v) ==
    LET base_score ==
            IF v.view_count > 0
            THEN QMul(Q(v.like_count + v.comment_count, v.view_count), QInt(100))
            ELSE QInt(0)
        virality_score ==
            QMul(QMul(base_score, AgeFactor(v.published_at)), ContentQualityFactor(v))
    IN QMin(QInt(100), virality_score)

\* rates computed without the view_count guard: the division raises
Rates_Unguarded(v) ==
    IF v.view_count = 0
    THEN [raised |-> TRUE, like_rate |-> QInt(0), comment_rate |-> QInt(0),
          total_engagement_rate |-> QInt(0)]
    ELSE [raised |-> FALSE,
          like_rate |-> QMul(Q(v.like_count, v.view_count), QInt(100)),
          comment_rate |-> QMul(Q(v.comment_count, v.view_count), QInt(100)),
          total_engagement_rate |->
              QMul(Q(v.like_count + v.comment_count, v.view_count), QInt(100))]

\* rates that are fractions of the views, not percentages
Rates_NoPercent(v) ==
    IF v.view_count > 0
    THEN [raised |-> FALSE,
          like_rate |-> Q(v.like_count, v.view_count),
          comment_rate |-> Q(v.comment_count, v.view_count),
          total_engagement_rate |-> Q(v.like_count + v.comment_count, v.view_count)]
    ELSE [raised |-> FALSE, like_rate |-> QInt(0), comment_rate |-> QInt(0),
          total_engagement_rate |-> QInt(0)]

\* main.py:817-825
Rates(v) ==
    IF v.view_count > 0
    THEN [raised |-> FALSE,
          like_rate |-> QMul(Q(v.like_count, v.view_count), QInt(100)),
          comment_rate |-> QMul(Q(v.comment_count, v.view_count), QInt(100)),
          total_engagement_rate |->
              QMul(Q(v.like_count + v.comment_count, v.view_count), QInt(100))]
    ELSE [raised |-> FALSE, like_rate |-> QInt(0), comment_rate |-> QInt(0),
          total_engagement_rate |-> QInt(0)]

\* an engagement score without the cap at 100
EngagementScore_Unclamped(rates) ==
    QAdd(QMul(rates.like_rate, QInt(2)), QMul(rates.comment_rate, QInt(10)))

\* an engagement score in which a comment weighs five, not ten
EngagementScore_LightComments(rates) ==
    QMin(QInt(100), QAdd(QMul(rates.like_rate, QInt(2)), QMul(rates.comment_rate, QInt(5))))

\* main.py:828
EngagementScore(rates) ==
    QMin(QInt(100), QAdd(QMul(rates.like_rate, QInt(2)), QMul(rates.comment_rate, QInt(10))))

\* main.py:831-836
EngagementLevel(engagement_score) ==
    IF QLe(QInt(70), engagement_score) THEN "high"
    ELSE IF QLe(QInt(30), engagement_score) THEN "medium"
    ELSE "low"

\* main.py:811-850: the "engagement_metrics" mappings that can be returned,
\* or the exception raised
calculate_engagement_metrics(v) ==
    LET rates == Rates(v)
        engagement_score == EngagementScore(rates)
    IN IF rates.raised THEN {[raised |-> TRUE]}
       ELSE {[raised |-> FALSE,
              engagement_metrics |->
                  [like_rate |-> lr,
                   comment_rate |-> cr,
                   total_engagement_rate |-> tr,
                   engagement_score |-> es,
                   engagement_level |-> EngagementLevel(engagement_score),
                   virality_score |-> vs]] :
                 lr \in round2(rates.like_rate),
                 cr \in round2(rates.comment_rate),
                 tr \in round2(rates.total_engagement_rate),
                 es \in round2(engagement_score),
                 vs \in round2(calculate_virality_score(v))}

\* a performance score with the weights of its two parts exchanged
calculate_performance_score_Swapped(v) ==
    LET view_score == QMin(QInt(100), QMul(log10(Max(1, v.view_count)), QInt(10)))
        engagement_score ==
            QMin(QInt(100),
                 QMul(Q(v.like_count + v.comment_count, Max(1, v.view_count)), QInt(1000)))
    IN QAdd(QMul(view_score, Q(4, 10)), QMul(engagement_score, Q(6, 10)))

\* main.py:916-928
calculate_performance_score(v) ==
    LET view_score == QMin(QInt(100), QMul(log10(Max(1, v.view_count)), QInt(10)))
        engagement_score ==
            QMin(QInt(100),
                 QMul(Q(v.like_count + v.comment_count, Max(1, v.view_count)), QInt(1000)))
    IN QAdd(QMul(view_score, Q(6, 10)), QMul(engagement_score, Q(4, 10)))

\* main.py:930-942 and threads.py:633-645
calculate_content_effectiveness(v) ==
    LET has_caption == v.caption = "true"
        description_score == QMin(QInt(100), Q(v.description_length, 10))
        tag_score == QMin(QInt(100), QInt(v.tag_count * 10))
        caption_score == IF has_caption THEN QInt(20) ELSE QInt(0)
    IN QAdd(QAdd(QMul(description_score, Q(4, 10)), QMul(tag_score, Q(4, 10))),
            QMul(caption_score, Q(2, 10)))

\* main.py:967-977 and threads.py:669-680: re.match raises TypeError for a
\* duration that is not a string; a string that is no ISO-8601 duration
\* gives 0
parse_duration(duration) ==
    CASE duration.kind = "seconds" -> [raised |-> TRUE, seconds |-> 0]
      [] duration.kind = "iso" ->
            [raised |-> FALSE,
             seconds |-> duration.h * 3600 + duration.m * 60 + duration.s]
      [] OTHER -> [raised |-> FALSE, seconds |-> 0]

\* main.py:959 and threads.py:663
DurationFactor(duration_seconds) ==
    QMax(Q(3, 10), QSub(QInt(1), Q(duration_seconds, 3600)))

EngagementRatio(v) ==
    IF v.view_count > 0 THEN Q(v.like_count, v.view_count) ELSE QInt(0)

\* main.py:944-965: a failing parse_duration ends in the bare except
simulate_audience_retention(v) ==
    LET parsed == parse_duration(v.duration)
        duration_factor ==
            IF parsed.raised THEN Q(7, 10) ELSE DurationFactor(parsed.seconds)
        retention_rate == QMul(QMul(EngagementRatio(v), QInt(100)), duration_factor)
    IN QMin(QInt(95), QMax(QInt(5), retention_rate))

\* dict.get on a sub-mapping of the record that may not have been stored yet
Stored(sub, field) == IF Len(sub) = 0 THEN QInt(0) ELSE sub[1][field]

\* main.py:979-987 and threads.py:682-690: reads the scores stored in the
\* record so far
calculate_growth_potential(engagement_metrics, performance_analytics) ==
    QAdd(QAdd(QMul(Stored(engagement_metrics, "engagement_score"), Q(4, 10)),
              QMul(Stored(engagement_metrics, "virality_score"), Q(3, 10))),
         QMul(Stored(performance_analytics, "performance_score"), Q(3, 10)))

\* main.py:989-998 and threads.py:692-701
get_performance_category(performance_score) ==
    IF QLe(QInt(80), performance_score) THEN "Excellent"
    ELSE IF QLe(QInt(60), performance_score) THEN "Good"
    ELSE IF QLe(QInt(40), performance_score) THEN "Average"
    ELSE "Below Average"

\* main.py:886-914, called at main.py:744 when the record holds its
\* "engagement_metrics" and no "performance_analytics" yet
calculate_performance_analytics(v, engagement_metrics) ==
    LET performance_score == calculate_performance_score(v)
    IN {[performance_score |-> ps,
         content_effectiveness |-> ce,
         audience_retention |-> ar,
         growth_potential |-> gp,
         performance_category |-> get_performance_category(performance_score)] :
            ps \in round2(performance_score),
            ce \in round2(calculate_content_effectiveness(v)),
            ar \in round2(simulate_audience_retention(v)),
            gp \in round2(calculate_growth_potential(<<engagement_metrics>>, <<>>))}

\* main.py:738-745: the scoring of one fetched record in run()
run_scoring(v) ==
    UNION {IF em.raised THEN {[raised |-> TRUE]}
           ELSE {[raised |-> FALSE,
                  engagement_metrics |-> em.engagement_metrics,
                  performance_analytics |-> pa] :
                     pa \in calculate_performance_analytics(v, em.engagement_metrics)} :
           em \in calculate_engagement_metrics(v)}

\* threads.py:647-667: the TypeError of _parse_duration is not caught here
_simulate_audience_retention(v) ==
    LET parsed == parse_duration(v.duration)
    IN IF parsed.raised THEN [raised |-> TRUE, value |-> QInt(0)]
       ELSE [raised |-> FALSE,
             value |->
                 QMin(QInt(95),
                      QMax(QInt(5),
                           QMul(QMul(EngagementRatio(v), QInt(100)),
                                DurationFactor(parsed.seconds))))]

\* threads.py:585-631: the analysed records that can be returned, or the
\* exception raised at threads.py:628, when "engagement_metrics" has been
\* stored in the record (threads.py:616) and "performance_analytics" not yet
_analyze_video(v) ==
    LET engagement_rate ==
            IF v.view_count > 0
            THEN QMul(Q(v.like_count + v.comment_count, v.view_count), QInt(100))
            ELSE QInt(0)
        engagement_level ==
            IF QLe(QInt(5), engagement_rate) THEN "high"
            ELSE IF QLe(QInt(1), engagement_rate) THEN "medium"
            ELSE "low"
        engagement_score == QMin(QInt(100), QMul(engagement_rate, QInt(10)))
        virality_score ==
            QMin(QInt(100),
                 QAdd(QMul(log10(Max(1, v.view_count)), QInt(10)),
                      QMul(engagement_score, Q(3, 10))))
        performance_score ==
            QAdd(QMul(engagement_score, Q(6, 10)), QMul(virality_score, Q(4, 10)))
        ems == {[engagement_rate |-> er,
                 engagement_level |-> engagement_level,
                 engagement_score |-> es,
                 virality_score |-> vs] :
                    er \in round2(engagement_rate),
                    es \in round2(engagement_score),
                    vs \in round2(virality_score)}
        retention == _simulate_audience_retention(v)
    IN IF retention.raised
       THEN {[raised |-> TRUE, engagement_metrics |-> em] : em \in ems}
       ELSE {[raised |-> FALSE,
              engagement_metrics |-> em,
              performance_analytics |->
                  [performance_score |-> ps,
                   performance_category |-> get_performance_category(performance_score),
                   growth_potential |-> calculate_growth_potential(<<em>>, <<>>),
                   content_effectiveness |-> calculate_content_effectiveness(v),
                   audience_retention |-> retention.value]] :
                 em \in ems, ps \in round2(performance_score)}

(***************************************************************************)
(* Inputs of the extraction: texts made of at most MaxParts fragments,     *)
(* each ending in a space, and the hash seeds an interpreter may draw.     *)
(***************************************************************************)
MaxParts == 2
NSeeds == 2

\* "@foo ": an @-handle
FragHandle == <<"@","f","o","o"," ">>
\* "https://twitter.com/foo ": the same account as a full URL
FragUrl == <<"h","t","t","p","s",":","/","/","t","w","i","t","t","e","r",".","c","o","m","/","f","o","o"," ">>
\* "twitter.com/abc ": a URL without scheme, matched by the second twitter pattern only
FragBareUrl == <<"t","w","i","t","t","e","r",".","c","o","m","/","a","b","c"," ">>
\* "a@b.co ": an e-mail address
FragEmail == <<"a","@","b",".","c","o"," ">>
\* "c@d.co ": a second e-mail address
FragEmail2 == <<"c","@","d",".","c","o"," ">>
\* "555 123 4567 ": a phone number; after another fragment the match starts with its space
FragPhone == <<"5","5","5"," ","1","2","3"," ","4","5","6","7"," ">>

Fragments == <<FragHandle, FragUrl, FragBareUrl, FragEmail, FragEmail2, FragPhone>>

RECURSIVE TextsUpTo(_)
TextsUpTo(n) ==
    IF n = 0 THEN {<<>>}
    ELSE LET T == TextsUpTo(n - 1)
         IN T \cup {t \o Fragments[k] : t \in T, k \in 1..Len(Fragments)}

Texts == TextsUpTo(MaxParts)
Seeds == 0..(NSeeds - 1)

NoVideo == [present |-> FALSE]
NotScored == [main |-> <<>>, threads |-> <<>>, calls |-> <<>>]

(***************************************************************************)
(* Extraction: each interpreter run calls extract_social_media on the text *)
(***************************************************************************)
\* one run of the program
InitExtract ==
    /\ text \in Texts
    /\ hashseed \in [{1} -> Seeds]
    /\ cleaned = [r \in {1} |-> <<>>]
    /\ video = NoVideo
    /\ scored = NotScored

\* two runs of the program on the same text, each with its own hash seed
InitRuns ==
    /\ text \in Texts
    /\ hashseed \in [{1, 2} -> Seeds]
    /\ cleaned = [r \in {1, 2} |-> <<>>]
    /\ video = NoVideo
    /\ scored = NotScored

\* run r calls extract_social_media(text) and keeps what it returns
Extract(r) ==
    /\ cleaned[r] = <<>>
    /\ cleaned' = [cleaned EXCEPT ![r] = <<extract_social_media(hashseed[r], text)>>]
    /\ UNCHANGED <<hashseed, text, video, scored>>

NextExtract == \E r \in DOMAIN hashseed : Extract(r)

SpecExtract == InitExtract /\ [][NextExtract]_vars
SpecRuns == InitRuns /\ [][NextExtract]_vars

Returned(r) == r \in DOMAIN cleaned /\ cleaned[r] # <<>>
Result(r) == cleaned[r][1]

(***************************************************************************)
(* Claims about the extraction                                             *)
(***************************************************************************)
SpecKeys ==
    {"email", "twitter", "instagram", "facebook", "tiktok", "discord",
     "telegram", "website", "phone", "linkedin", "youtube", "reddit",
     "twitch", "snapchat", "pinterest", "github"}

IsList(v) == DOMAIN v = 1..Len(v)

\* C1: whatever the text (the empty one included), the mapping returned has
\* exactly the 16 category keys and every key maps to a list; a category
\* without a match maps to the empty list instead of being left out.
C1_AllKeysPresent ==
    \A r \in DOMAIN cleaned :
        Returned(r) =>
            /\ DOMAIN Result(r) = SpecKeys
            /\ \A k \in SpecKeys : IsList(Result(r)[k])

\* the empty text has been extracted: every one of the 16 lists is empty
C1_Witness ==
    \E r \in DOMAIN cleaned :
        /\ Returned(r)
        /\ text = <<>>
        /\ \A k \in SpecKeys : Result(r)[k] = <<>>

\* C2: in every category's list no string occurs twice, no string is empty
\* or all whitespace, and no string starts or ends with whitespace.
C2_UniqueTrimmedNonEmpty ==
    \A r \in DOMAIN cleaned :
        Returned(r) =>
            \A k \in DOMAIN Result(r) :
                LET l == Result(r)[k]
                IN /\ \A i, j \in 1..Len(l) : i # j => l[i] # l[j]
                   /\ \A i \in 1..Len(l) :
                        /\ Len(l[i]) > 0
                        /\ \E c \in 1..Len(l[i]) : l[i][c] \notin Space
                        /\ l[i][1] \notin Space
                        /\ l[i][Len(l[i])] \notin Space

\* a text whose two twitter patterns yield the same candidate and whose
\* phone match starts with a space: both the dedup and the trim have acted
C2_Witness ==
    \E r \in DOMAIN cleaned :
        /\ Returned(r)
        /\ Len(FlatValues(DataOf(hashseed[r], "twitter", text)))
             > Len(Result(r)["twitter"])
        /\ LET d == DataOf(hashseed[r], "phone", text)
           IN \E k \in 1..Len(d) : Head(d[k].v[1]) \in Space
        /\ Len(Result(r)["phone"]) = 1

Matches(p, s) == FindFrom(p.re, p.n, s, MatchStarts(p.re, p.n, s), 1)

\* the candidate strings one match yields
MatchStrings(p, s, mt) ==
    LET it == Item(p.n, s, mt) IN {strip(it.v[j]) : j \in 1..Len(it.v)}

\* where the matches that yield string a start in s
StartsYielding(cat, s, a) ==
    LET ps == PatternsOf(cat)
    IN UNION {LET ms == Matches(ps[k], s)
              IN {ms[j].start : j \in {j \in 1..Len(ms) : a \in MatchStrings(ps[k], s, ms[j])}}
              : k \in 1..Len(ps)}

FirstSeen(cat, s, a) == MinOf(StartsYielding(cat, s, a))

\* C3: every category's list is in first-seen order: a string whose first
\* yielding match starts earlier in the text comes earlier in the list.
C3_FirstSeenOrder ==
    \A r \in DOMAIN cleaned :
        Returned(r) =>
            \A cat \in CategorySet :
                LET l == Result(r)[cat]
                IN \A i, j \in 1..Len(l) :
                      FirstSeen(cat, text, l[i]) < FirstSeen(cat, text, l[j]) => i < j

\* C4: two invocations on the same text, in the same or in different runs
\* of the program, return equal mappings (same keys, same lists in the same
\* order).
C4_Deterministic ==
    \A r1, r2 \in DOMAIN cleaned :
        Returned(r1) /\ Returned(r2) => Result(r1) = Result(r2)

Contains(s, frag) == \E i \in 1..(Len(s) - Len(frag) + 1) : HasPrefix(s, i, frag)

AccountName == <<"f","o","o">>
HandleForm  == <<"@">> \o AccountName
BareUrlForm == <<"t","w","i","t","t","e","r",".","c","o","m","/">> \o AccountName
UrlForm     == <<"h","t","t","p","s",":","/","/">> \o BareUrlForm

\* the text holds the account both as "@foo" and as "https://twitter.com/foo"
BothForms == Contains(text, FragHandle) /\ Contains(text, FragUrl)

\* the entries of a list that name the account, in whatever form
EntriesNaming(l) ==
    {i \in 1..Len(l) : l[i] \in {AccountName, HandleForm, BareUrlForm, UrlForm}}

\* C5 as claimed: a text with an @-handle and a full URL of the same account
\* gets two separate twitter entries for it, one per form.
C5_TwoEntriesPerAccount ==
    \A r \in DOMAIN cleaned :
        Returned(r) /\ BothForms =>
            Cardinality(EntriesNaming(Result(r)["twitter"])) = 2

\* C5 as amended: both forms are captured as the bare account name, so the
\* twitter list holds that name once and holds neither the "@foo" form nor
\* the URL form.
C5_OneEntryBareName ==
    \A r \in DOMAIN cleaned :
        Returned(r) /\ BothForms =>
            LET l == Result(r)["twitter"]
            IN /\ Cardinality({i \in 1..Len(l) : l[i] = AccountName}) = 1
               /\ EntriesNaming(l) = {i \in 1..Len(l) : l[i] = AccountName}

\* a text with both forms has been extracted
C5_Witness == \E r \in DOMAIN cleaned : Returned(r) /\ BothForms

(***************************************************************************)
(* Scoring: one metadata record is scored by main.py's scorers and by      *)
(* threads.py's _analyze_video.                                            *)
(***************************************************************************)
Views == {0, 1, 1000, 100000}
Likes == {0, 1, 50, 5000, 34998}
Comments == {0, 10, 300}

Published(form, days) == [form |-> form, days |-> days]
PublishDates ==
    {Published("date", d) : d \in {0 - 200, 0, 100, 400}}
        \cup {Published("datetime", 30), Published("zulu", 100),
              Published("offset", 0 - 200), Published("empty", 0),
              Published("garbage", 0)}
ParseableForms == {"date", "datetime", "zulu", "offset"}

Duration(kind, h, m, s) == [kind |-> kind, h |-> h, m |-> m, s |-> s]
Durations ==
    {Duration("seconds", 0, 0, 300), Duration("iso", 0, 5, 0),
     Duration("iso", 2, 0, 0), Duration("text", 0, 0, 0)}

\* tags, description and caption of a record
Content(tags, description, caption) ==
    [tag_count |-> tags, description_length |-> description, caption |-> caption]
Contents ==
    {Content(0, 0, "false"), Content(3, 50, "true"), Content(0, 150, "missing"),
     Content(12, 1500, "true")}

\* the records of the specification's scenarios and of the thresholds
ScenarioCounts ==
    {<<1000000, 50000, 5000>>, <<100000, 2489, 10>>, <<100000, 34998, 0>>}
ScenarioDurations ==
    Durations \cup {Duration("seconds", 0, 0, 1800), Duration("iso", 0, 30, 0)}

\* absent: the keys the mapping does not hold
ScenarioVideos ==
    {[present |-> TRUE, absent |-> {}, view_count |-> n[1], like_count |-> n[2],
      comment_count |-> n[3], published_at |-> Published("date", 100),
      duration |-> d, tag_count |-> 0, description_length |-> 0,
      caption |-> "false"] :
        n \in ScenarioCounts, d \in ScenarioDurations}

GridVideos ==
    {[present |-> TRUE, absent |-> {}, view_count |-> V, like_count |-> L,
      comment_count |-> C, published_at |-> p, duration |-> d,
      tag_count |-> c.tag_count, description_length |-> c.description_length,
      caption |-> c.caption] :
        V \in Views, L \in Likes, C \in Comments, p \in PublishDates,
        d \in Durations, c \in Contents}

Videos == GridVideos \cup ScenarioVideos

Keys ==
    {"view_count", "like_count", "comment_count", "published_at", "duration",
     "tags", "description", "caption"}

\* video_data.get(key, default) of the scorers (main.py:813-815, 857, 874-875,
\* 932-934, 946-948; threads.py:588-590, 635-637, 649-651): an absent key
\* reads as 0, "", [] or None
get(v) ==
    [v EXCEPT
        !.view_count = IF "view_count" \in v.absent THEN 0 ELSE @,
        !.like_count = IF "like_count" \in v.absent THEN 0 ELSE @,
        !.comment_count = IF "comment_count" \in v.absent THEN 0 ELSE @,
        !.published_at = IF "published_at" \in v.absent THEN Published("empty", 0) ELSE @,
        !.duration = IF "duration" \in v.absent THEN Duration("text", 0, 0, 0) ELSE @,
        !.tag_count = IF "tags" \in v.absent THEN 0 ELSE @,
        !.description_length = IF "description" \in v.absent THEN 0 ELSE @,
        !.caption = IF "caption" \in v.absent THEN "missing" ELSE @]

\* records that lack any subset of their keys
PartialVideos ==
    {[v EXCEPT !.absent = A] :
        v \in {w \in Videos : /\ w.view_count = 1000 /\ w.like_count = 50
                               /\ w.comment_count = 10 /\ w.tag_count = 3
                               /\ w.duration \in {Duration("seconds", 0, 0, 300),
                                                 Duration("iso", 0, 5, 0)}},
        A \in SUBSET Keys}

InitScore ==
    /\ hashseed = [r \in {1} |-> 0]
    /\ text = <<>>
    /\ cleaned = [r \in {1} |-> <<>>]
    /\ video \in Videos
    /\ scored = NotScored

\* the mapping object handed to a scorer: the fetched keys and the two
\* mappings of scores stored in it, <<>> while a key is not stored
Dict(v, engagement_metrics, performance_analytics) ==
    [fields |-> v, engagement_metrics |-> engagement_metrics,
     performance_analytics |-> performance_analytics]

\* the mapping object after a call of the scorer on it
RecordAfter(scorer, d, result) ==
    CASE scorer = "calculate_engagement_metrics" -> d       \* main.py:811-850
      [] scorer = "calculate_performance_analytics" -> d    \* main.py:886-914
      [] scorer = "_analyze_video" ->                       \* threads.py:616, 623
            [d EXCEPT !.engagement_metrics = <<result.engagement_metrics>>,
                      !.performance_analytics =
                          IF result.raised THEN @
                          ELSE <<result.performance_analytics>>]

\* whether the scorer returns the object it was given (threads.py:631) and
\* not a new mapping (main.py:841-850, 906-914)
ReturnsArgument(scorer) == scorer = "_analyze_video"

Call(scorer, d, result) ==
    [scorer |-> scorer, before |-> d, after |-> RecordAfter(scorer, d, result),
     returns_argument |-> ~result.raised /\ ReturnsArgument(scorer)]

\* main.py:740-745: the two scorer calls of run() and the stores between them
MainCalls(v, result) ==
    IF result.raised
    THEN <<Call("calculate_engagement_metrics", Dict(v, <<>>, <<>>), result)>>
    ELSE <<Call("calculate_engagement_metrics", Dict(v, <<>>, <<>>), result),
           Call("calculate_performance_analytics",
                Dict(v, <<result.engagement_metrics>>, <<>>), result)>>

\* main.py:737-745
ScoreMain ==
    /\ scored.main = <<>>
    /\ \E result \in run_scoring(get(video)) :
          scored' = [scored EXCEPT !.main = <<result>>,
                                   !.calls = @ \o MainCalls(video, result)]
    /\ UNCHANGED <<hashseed, text, cleaned, video>>

\* threads.py:517-521
ScoreThreads ==
    /\ scored.threads = <<>>
    /\ \E result \in _analyze_video(get(video)) :
          scored' = [scored EXCEPT
                        !.threads = <<result>>,
                        !.calls = @ \o <<Call("_analyze_video",
                                              Dict(video, <<>>, <<>>), result)>>]
    /\ UNCHANGED <<hashseed, text, cleaned, video>>

NextScore == ScoreMain \/ ScoreThreads

InitPartial ==
    /\ hashseed = [r \in {1} |-> 0]
    /\ text = <<>>
    /\ cleaned = [r \in {1} |-> <<>>]
    /\ video \in PartialVideos
    /\ scored = NotScored

SpecPartial == InitPartial /\ [][NextScore]_vars

SpecScore == InitScore /\ [][NextScore]_vars

MainScored == scored.main # <<>>
ThreadsScored == scored.threads # <<>>
MainResult == scored.main[1]
ThreadsResult == scored.threads[1]

(***************************************************************************)
(* Claims about the scoring                                                *)
(***************************************************************************)
Zero == QInt(0)
InRange(x, lo, hi) == QLe(QInt(lo), x) /\ QLe(x, QInt(hi))

\* C6: a record with view_count = 0 and any like_count and comment_count is
\* scored by the engagement scorer without an exception; like_rate,
\* comment_rate, total_engagement_rate, engagement_score and virality_score
\* are 0 and engagement_level is "low".
C6_ZeroViewsScoreZero ==
    (MainScored /\ video.view_count = 0) =>
        /\ ~MainResult.raised
        /\ LET em == MainResult.engagement_metrics
           IN /\ em.like_rate = Zero
              /\ em.comment_rate = Zero
              /\ em.total_engagement_rate = Zero
              /\ em.engagement_score = Zero
              /\ em.virality_score = Zero
              /\ em.engagement_level = "low"

C6_Witness ==
    /\ MainScored
    /\ video.view_count = 0
    /\ video.like_count > 0
    /\ video.comment_count > 0

\* C7: every returned engagement_score, virality_score, performance_score,
\* content_effectiveness and growth_potential lies in [0,100] and every
\* returned audience_retention in [5,95], in main.py's scorers and in
\* threads.py's _analyze_video, also when likes + comments exceed the views.
ScoresInRange(r) ==
    /\ InRange(r.engagement_metrics.engagement_score, 0, 100)
    /\ InRange(r.engagement_metrics.virality_score, 0, 100)
    /\ InRange(r.performance_analytics.performance_score, 0, 100)
    /\ InRange(r.performance_analytics.content_effectiveness, 0, 100)
    /\ InRange(r.performance_analytics.growth_potential, 0, 100)
    /\ InRange(r.performance_analytics.audience_retention, 5, 95)

C7_ScoresInRange ==
    /\ (MainScored /\ ~MainResult.raised) => ScoresInRange(MainResult)
    /\ (ThreadsScored /\ ~ThreadsResult.raised) => ScoresInRange(ThreadsResult)

C7_Witness ==
    /\ MainScored /\ ~MainResult.raised
    /\ ThreadsScored /\ ~ThreadsResult.raised
    /\ video.view_count > 0
    /\ video.like_count + video.comment_count > video.view_count
    /\ video.published_at.days < 0

\* x is a hundredth and no other hundredth is nearer to num / den
NearestHundredth(x, num, den) ==
    /\ 100 % x.d = 0
    /\ LET k == x.n * (100 \div x.d)
           e == k * den - 100 * num
       IN 2 * Abs(e) <= den

Min(a, b) == IF a <= b THEN a ELSE b

\* C8: for view_count V > 0 the engagement scorer returns like_rate = 100*L/V,
\* comment_rate = 100*C/V, total_engagement_rate = 100*(L+C)/V and
\* engagement_score = min(100, 2*like_rate + 10*comment_rate), each rounded
\* to 2 decimals; V=1000, L=50, C=10 gives 5.0, 1.0, 6.0, 20.0 and "low".
C8_RatesAndScore ==
    (MainScored /\ video.view_count > 0) =>
        /\ ~MainResult.raised
        /\ LET em == MainResult.engagement_metrics
               V  == video.view_count
               L  == video.like_count
               C  == video.comment_count
           IN /\ NearestHundredth(em.like_rate, 100 * L, V)
              /\ NearestHundredth(em.comment_rate, 100 * C, V)
              /\ NearestHundredth(em.total_engagement_rate, 100 * (L + C), V)
              /\ NearestHundredth(em.engagement_score,
                                  Min(100 * V, 200 * L + 1000 * C), V)
              /\ (V = 1000 /\ L = 50 /\ C = 10) =>
                     /\ em.like_rate = QInt(5)
                     /\ em.comment_rate = QInt(1)
                     /\ em.total_engagement_rate = QInt(6)
                     /\ em.engagement_score = QInt(20)
                     /\ em.engagement_level = "low"

C8_Witness ==
    /\ MainScored /\ ~MainResult.raised
    /\ video.view_count = 1000
    /\ video.like_count = 50
    /\ video.comment_count = 10

\* C9: the returned engagement_level agrees with the engagement_score
\* returned beside it: "high" exactly when that score is >= 70, "medium"
\* exactly when it is >= 30 and < 70, "low" exactly when it is < 30.
C9_LevelAgreesWithReturnedScore ==
    (MainScored /\ ~MainResult.raised) =>
        LET em == MainResult.engagement_metrics
        IN em.engagement_level =
              (IF QLe(QInt(70), em.engagement_score) THEN "high"
               ELSE IF QLe(QInt(30), em.engagement_score) THEN "medium"
               ELSE "low")

Clamp01(x) == QMax(QInt(0), QMin(QInt(1), x))

\* C10: for a record whose publish timestamp parses (date-only, date-time,
\* with 'Z' or with a UTC offset, past or future) the returned virality_score
\* is min(100, base * age_factor * content_quality_factor) rounded, with
\* base = 100*(L+C)/V (0 when V = 0), age_factor = 1 - days/365 clamped into
\* [0,1] and content_quality_factor = 1.0 + 0.2 for tags + 0.2 for a
\* description longer than 100 characters.
C10_ViralityFormula ==
    (MainScored /\ ~MainResult.raised /\ video.published_at.form \in ParseableForms) =>
        LET base == IF video.view_count = 0 THEN QInt(0)
                    ELSE Q(100 * (video.like_count + video.comment_count),
                           video.view_count)
            age  == Clamp01(QSub(QInt(1), Q(video.published_at.days, 365)))
            cq   == Q(10 + (IF video.tag_count > 0 THEN 2 ELSE 0)
                         + (IF video.description_length > 100 THEN 2 ELSE 0), 10)
        IN MainResult.engagement_metrics.virality_score
               \in round2(QMin(QInt(100), QMul(QMul(base, age), cq)))

\* the virality score of the specification for the record, with the given
\* age factor
ViralityWith(v, age_factor) ==
    LET base == IF v.view_count = 0 THEN QInt(0)
                ELSE Q(100 * (v.like_count + v.comment_count), v.view_count)
        cq   == Q(10 + (IF v.tag_count > 0 THEN 2 ELSE 0)
                     + (IF v.description_length > 100 THEN 2 ELSE 0), 10)
    IN QMin(QInt(100), QMul(QMul(base, age_factor), cq))

\* C11: when the publish date is missing, empty or not parseable the virality
\* scorer raises nothing and returns min(100, base * 0.5 * quality factor);
\* in every other case the age factor is computed from the date (it is
\* 1 - days/365, not below 0), the 0.5 fallback is not used.
C11_FallbackOnlyWhenUnparseable ==
    MainScored =>
        /\ ~MainResult.raised
        /\ LET v   == get(video)
               age == IF v.published_at.form \in ParseableForms
                      THEN QMax(QInt(0), QSub(QInt(1), Q(v.published_at.days, 365)))
                      ELSE Q(1, 2)
           IN MainResult.engagement_metrics.virality_score
                  \in round2(ViralityWith(v, age))

\* C12: main.py returns performance_score = 0.6 * view_score + 0.4 *
\* engagement_component, rounded, with view_score = min(100, 10*log10(max(1,V)))
\* and engagement_component = min(100, 1000*(L+C)/max(1,V)); V=1,000,000,
\* L=50,000, C=5,000 gives 58 and "Average".  (The view counts of the model
\* are powers of ten, 10^k, where 10*log10 is 10*k.)
C12_PerformanceScore ==
    (MainScored /\ ~MainResult.raised) =>
        LET V  == Max(1, video.view_count)
            L  == video.like_count
            C  == video.comment_count
            k  == CHOOSE e \in 0..6 : 10^e = V
            view_part == Q(6 * Min(100, 10 * k), 10)
            engagement_part == QMin(QInt(40), Q(400 * (L + C), V))
            pa == MainResult.performance_analytics
        IN /\ pa.performance_score \in round2(QAdd(view_part, engagement_part))
           /\ (V = 1000000 /\ L = 50000 /\ C = 5000) =>
                  /\ pa.performance_score = QInt(58)
                  /\ pa.performance_category = "Average"

C12_Witness ==
    /\ MainScored /\ ~MainResult.raised
    /\ video.view_count = 1000000
    /\ video.like_count = 50000
    /\ video.comment_count = 5000

CategoryOfReturned(pa) ==
    IF QLe(QInt(80), pa.performance_score) THEN "Excellent"
    ELSE IF QLe(QInt(60), pa.performance_score) THEN "Good"
    ELSE IF QLe(QInt(40), pa.performance_score) THEN "Average"
    ELSE "Below Average"

\* C13: in every performance result, of main.py and of threads.py, the
\* category agrees with the performance_score returned beside it:
\* "Excellent" iff that score >= 80, "Good" iff it is >= 60 and < 80,
\* "Average" iff >= 40 and < 60, "Below Average" iff < 40.
C13_CategoryAgreesWithReturnedScore ==
    /\ (MainScored /\ ~MainResult.raised) =>
           MainResult.performance_analytics.performance_category
               = CategoryOfReturned(MainResult.performance_analytics)
    /\ (ThreadsScored /\ ~ThreadsResult.raised) =>
           ThreadsResult.performance_analytics.performance_category
               = CategoryOfReturned(ThreadsResult.performance_analytics)

QAbs(x) == [n |-> Abs(x.n), d |-> x.d]

\* the growth potential of the specification from the scores of a result
GrowthOf(r) ==
    QAdd(QAdd(QMul(r.engagement_metrics.engagement_score, Q(4, 10)),
              QMul(r.engagement_metrics.virality_score, Q(3, 10))),
         QMul(r.performance_analytics.performance_score, Q(3, 10)))

\* up to the rounding of the parts and of the result
GrowthAgrees(r) ==
    QLe(QAbs(QSub(r.performance_analytics.growth_potential, GrowthOf(r))), Q(1, 100))

\* C14: in every result, of main.py and of threads.py, growth_potential is
\* 0.4 * engagement_score + 0.3 * virality_score + 0.3 * performance_score of
\* the scores of the same result, so a positive performance_score adds 0.3
\* times itself.
C14_GrowthPotential ==
    /\ (MainScored /\ ~MainResult.raised) => GrowthAgrees(MainResult)
    /\ (ThreadsScored /\ ~ThreadsResult.raised) => GrowthAgrees(ThreadsResult)

\* the record's duration in seconds
DurationSeconds(duration) == duration.h * 3600 + duration.m * 60 + duration.s

\* the audience retention of the specification
RetentionOf(v) ==
    LET duration_factor ==
            QMax(Q(3, 10),
                 QMin(QInt(1), QSub(QInt(1), Q(DurationSeconds(v.duration), 3600))))
    IN QMin(QInt(95),
            QMax(QInt(5),
                 QMul(Q(100 * v.like_count, Max(1, v.view_count)), duration_factor)))

\* C15: for a record whose duration is a number of seconds or an ISO-8601
\* string, main.py and threads.py return audience_retention =
\* min(95, max(5, 100 * (L / max(1, V)) * duration_factor)) with
\* duration_factor = 1 - duration_seconds / 3600 clamped into [0.3, 1.0].
C15_AudienceRetention ==
    video.duration.kind \in {"seconds", "iso"} =>
        /\ MainScored =>
              /\ ~MainResult.raised
              /\ MainResult.performance_analytics.audience_retention
                     \in round2(RetentionOf(video))
        /\ ThreadsScored =>
              /\ ~ThreadsResult.raised
              /\ ThreadsResult.performance_analytics.audience_retention
                     \in {RetentionOf(video)} \cup round2(RetentionOf(video))

(***************************************************************************)
(* Fetching: the metadata yt-dlp delivers for a video and the records the  *)
(* two implementations build from it.                                      *)
(***************************************************************************)
Infos ==
    {[view_count |-> V, like_count |-> L, comment_count |-> C, duration |-> s,
      upload_date |-> u, tag_count |-> t, description_length |-> n,
      subtitles |-> b] :
        V \in {0, 1000}, L \in {0, 50}, C \in {0, 10}, s \in {0, 300, 1800},
        u \in {Published("basic", 100), Published("basic_rejected", 100),
               Published("empty", 0)},
        t \in {0, 3, 12}, n \in {0, 50, 1500}, b \in BOOLEAN}

\* main.py:781-805
get_video_details(info) ==
    [present |-> TRUE, absent |-> {},
     view_count |-> info.view_count, like_count |-> info.like_count,
     comment_count |-> info.comment_count,
     published_at |-> info.upload_date,
     duration |-> Duration("seconds", 0, 0, info.duration),
     tag_count |-> info.tag_count,
     description_length |-> info.description_length,
     caption |-> IF info.subtitles THEN "true" ELSE "false"]

\* threads.py:566-579: the upload date is stored under the key "upload_date"
\* and the subtitles are not stored, so the record has neither
\* "published_at" nor "caption"
_get_video_data(info) ==
    [present |-> TRUE, absent |-> {"published_at", "caption"},
     view_count |-> info.view_count, like_count |-> info.like_count,
     comment_count |-> info.comment_count,
     published_at |-> info.upload_date,
     duration |-> Duration("seconds", 0, 0, info.duration),
     tag_count |-> info.tag_count,
     description_length |-> info.description_length,
     caption |-> "missing"]

InitContent ==
    /\ hashseed = [r \in {1} |-> 0]
    /\ text = <<>>
    /\ cleaned = [r \in {1} |-> <<>>]
    /\ video \in Infos
    /\ scored = NotScored

\* main.py:737 and 898: the content scorer on the record main.py fetched
ContentMain ==
    /\ scored.main = <<>>
    /\ scored' = [scored EXCEPT !.main =
          <<[content_effectiveness |->
                 calculate_content_effectiveness(get(get_video_details(video)))]>>]
    /\ UNCHANGED <<hashseed, text, cleaned, video>>

\* threads.py:517 and 627: the content scorer on the record threads.py fetched
ContentThreads ==
    /\ scored.threads = <<>>
    /\ scored' = [scored EXCEPT !.threads =
          <<[content_effectiveness |->
                 calculate_content_effectiveness(get(_get_video_data(video)))]>>]
    /\ UNCHANGED <<hashseed, text, cleaned, video>>

NextContent == ContentMain \/ ContentThreads

SpecContent == InitContent /\ [][NextContent]_vars

\* the content effectiveness of the specification for a video
ContentOf(info) ==
    QAdd(QAdd(QMul(QMin(QInt(100), Q(info.description_length, 10)), Q(4, 10)),
              QMul(QInt(Min(100, 10 * info.tag_count)), Q(4, 10))),
         QMul(IF info.subtitles THEN QInt(20) ELSE QInt(0), Q(2, 10)))

\* C16: in both implementations content_effectiveness is 0.4 *
\* description_score + 0.4 * tag_score + 0.2 * caption_score, with
\* caption_score 20 for a video that has captions and 0 otherwise, so
\* captions are worth exactly 4 points.
C16_ContentEffectiveness ==
    /\ MainScored => MainResult.content_effectiveness = ContentOf(video)
    /\ ThreadsScored => ThreadsResult.content_effectiveness = ContentOf(video)

\* C17: scoring is total: for a record that lacks any subset of its keys,
\* with any view count and with the duration as a number of seconds or as an
\* ISO-8601 string, main.py's scorers and threads.py's _analyze_video return
\* a result and raise nothing.
C17_ScoringTotal ==
    /\ MainScored => ~MainResult.raised
    /\ ThreadsScored => ~ThreadsResult.raised

\* C18: scoring has no side effect: every call of the engagement scorer, of
\* the performance scorer and of _analyze_video leaves the record it was
\* given as it was (no key added, removed or rewritten) and returns a new
\* mapping, not the record itself.
C18_ScoringLeavesRecordUnchanged ==
    \A i \in 1..Len(scored.calls) :
        /\ scored.calls[i].after = scored.calls[i].before
        /\ ~scored.calls[i].returns_argument

(***************************************************************************)
(* Two callers in one interpreter, each running one invocation while the   *)
(* other runs its own: extract_social_media(text) or the scoring of one    *)
(* record as in run().  The interpreter may switch from one caller to the  *)
(* other between any two steps.  In this specification                     *)
(*   hashseed[1]  is the hash seed of the interpreter,                     *)
(*   text[c]      the text caller c gives to extract_social_media,         *)
(*   video[c]     the video_data object of caller c (NoVideo when c calls  *)
(*                the extraction),                                         *)
(*   cleaned      the callers' positions in extract_social_media, the      *)
(*                locals of its activations and what it returned,          *)
(*   scored       the same for the scoring.                                *)
(***************************************************************************)
Callers == {1, 2}

\* the texts and the records the callers come with
CallerTexts == {<<>>, FragHandle, FragEmail \o FragEmail2}
CallerVideos ==
    {v \in Videos :
        /\ v.view_count = 1000 /\ v.comment_count = 10
        /\ v.like_count \in {1, 50}
        /\ v.published_at = Published("date", 100)
        /\ v.duration = Duration("iso", 0, 5, 0)
        /\ v.tag_count = 3 /\ v.description_length = 50 /\ v.caption = "true"}

\* the activation that holds the locals of caller c's invocation: every call
\* creates its own
FrameOf_Shared(c) == 1

FrameOf(c) == c

\* utils.py:24-90: the locals before the dict literal is evaluated
NoExtractLocals == [data |-> <<>>, cleaned_data |-> <<>>, k |-> 0]
\* main.py:740-744: the locals of the scoring before the first call
NoScoreLocals == [engagement_metrics |-> <<>>, performance_analytics |-> <<>>]

InitConcurrent ==
    /\ hashseed \in [{1} -> Seeds]
    /\ text \in [Callers -> CallerTexts]
    /\ video \in [Callers -> {NoVideo} \cup {Dict(v, <<>>, <<>>) : v \in CallerVideos}]
    /\ \A c \in Callers : video[c] # NoVideo => text[c] = <<>>
    /\ cleaned = [pc |-> [c \in Callers |-> IF video[c] = NoVideo THEN "literal" ELSE "none"],
                  frames |-> [f \in Callers |-> NoExtractLocals],
                  returned |-> [c \in Callers |-> <<>>]]
    /\ scored = [pc |-> [c \in Callers |-> IF video[c] = NoVideo THEN "none" ELSE "engagement"],
                 frames |-> [f \in Callers |-> NoScoreLocals],
                 returned |-> [c \in Callers |-> <<>>]]

\* utils.py:24-90: the dict literal with one findall list per key, and the
\* empty cleaned_data
ExtractLiteral(c) ==
    /\ cleaned.pc[c] = "literal"
    /\ cleaned' = [cleaned EXCEPT
                      !.pc[c] = "loop",
                      !.frames[FrameOf(c)] =
                          [data |-> [cat \in CategorySet |->
                                        DataOf(hashseed[1], cat, text[c])],
                           cleaned_data |-> <<>>,
                           k |-> 1]]
    /\ UNCHANGED <<hashseed, text, video, scored>>

\* utils.py:91-111: one turn of the loop over data.items(), or its end
ExtractLoop(c) ==
    /\ cleaned.pc[c] = "loop"
    /\ LET locals == cleaned.frames[FrameOf(c)]
       IN IF locals.k > Len(Categories)
          THEN cleaned' = [cleaned EXCEPT !.pc[c] = "return"]
          ELSE LET key == Categories[locals.k]
                   unique_values == UniqueValues(FlatValues(locals.data[key]))
               IN cleaned' = [cleaned EXCEPT
                                 !.frames[FrameOf(c)].cleaned_data =
                                     (key :> unique_values) @@ @,
                                 !.frames[FrameOf(c)].k = @ + 1]
    /\ UNCHANGED <<hashseed, text, video, scored>>

\* utils.py:113
ExtractReturn(c) ==
    /\ cleaned.pc[c] = "return"
    /\ cleaned' = [cleaned EXCEPT
                      !.pc[c] = "done",
                      !.returned[c] = <<cleaned.frames[FrameOf(c)].cleaned_data>>]
    /\ UNCHANGED <<hashseed, text, video, scored>>

\* main.py:740: engagement_metrics = self.calculate_engagement_metrics(video_data);
\* an exception ends run() (main.py:760-761)
CallEngagement(c) ==
    /\ scored.pc[c] = "engagement"
    /\ \E result \in calculate_engagement_metrics(get(video[c].fields)) :
          scored' = IF result.raised
                    THEN [scored EXCEPT !.pc[c] = "done",
                                        !.returned[c] = <<[raised |-> TRUE]>>]
                    ELSE [scored EXCEPT
                             !.pc[c] = "store_engagement",
                             !.frames[FrameOf(c)].engagement_metrics = <<result>>]
    /\ UNCHANGED <<hashseed, text, cleaned, video>>

\* main.py:741: video_data["engagement_metrics"] = engagement_metrics["engagement_metrics"]
StoreEngagement(c) ==
    /\ scored.pc[c] = "store_engagement"
    /\ video' = [video EXCEPT ![c].engagement_metrics =
                    <<scored.frames[FrameOf(c)].engagement_metrics[1].engagement_metrics>>]
    /\ scored' = [scored EXCEPT !.pc[c] = "performance"]
    /\ UNCHANGED <<hashseed, text, cleaned>>

\* main.py:744: performance_analytics = self.calculate_performance_analytics(video_data)
CallPerformance(c) ==
    /\ scored.pc[c] = "performance"
    /\ \E result \in calculate_performance_analytics(get(video[c].fields),
                                                     video[c].engagement_metrics[1]) :
          scored' = [scored EXCEPT
                        !.pc[c] = "store_performance",
                        !.frames[FrameOf(c)].performance_analytics = <<result>>]
    /\ UNCHANGED <<hashseed, text, cleaned, video>>

\* main.py:745-747: video_data["performance_analytics"] = ...; the scored
\* record is appended to the results
StorePerformance(c) ==
    /\ scored.pc[c] = "store_performance"
    /\ LET performance_analytics == scored.frames[FrameOf(c)].performance_analytics
       IN /\ video' = [video EXCEPT ![c].performance_analytics = performance_analytics]
          /\ scored' = [scored EXCEPT
                           !.pc[c] = "done",
                           !.returned[c] =
                               <<[raised |-> FALSE,
                                  engagement_metrics |-> video[c].engagement_metrics[1],
                                  performance_analytics |-> performance_analytics[1]]>>]
    /\ UNCHANGED <<hashseed, text, cleaned>>

NextConcurrent ==
    \E c \in Callers :
        \/ ExtractLiteral(c)
        \/ ExtractLoop(c)
        \/ ExtractReturn(c)
        \/ CallEngagement(c)
        \/ StoreEngagement(c)
        \/ CallPerformance(c)
        \/ StorePerformance(c)

SpecConcurrent == InitConcurrent /\ [][NextConcurrent]_vars

Extracts(c) == video[c] = NoVideo
Running(c) ==
    IF Extracts(c) THEN cleaned.pc[c] \in {"loop", "return"}
    ELSE scored.pc[c] \in {"store_engagement", "performance", "store_performance"}
Finished(c) == IF Extracts(c) THEN cleaned.pc[c] = "done" ELSE scored.pc[c] = "done"

DifferentInputs(c, o) ==
    \/ Extracts(c) # Extracts(o)
    \/ Extracts(c) /\ text[c] # text[o]
    \/ ~Extracts(c) /\ video[c].fields # video[o].fields

\* C19: two invocations running concurrently do not interfere: under every
\* interleaving of their steps, an extraction that has returned has returned
\* what extract_social_media returns for the caller's text alone, and a
\* scoring that has finished has produced a result that the scoring of the
\* caller's record alone produces.
C19_ConcurrentAsAlone ==
    \A c \in Callers :
        Finished(c) =>
            IF Extracts(c)
            THEN cleaned.returned[c] = <<extract_social_media(hashseed[1], text[c])>>
            ELSE /\ Len(scored.returned[c]) = 1
                 /\ scored.returned[c][1] \in run_scoring(get(video[c].fields))

\* C19 witness: an invocation has finished while the other caller, which
\* came with another input, was in the middle of its own.
C19_Witness ==
    \E c, o \in Callers :
        /\ c # o
        /\ Finished(c) /\ Running(o)
        /\ DifferentInputs(c, o)

(***************************************************************************)
(* The engagement scorer of main.py applied to a record and to the same    *)
(* record with one like, five likes or one comment more.                   *)
(***************************************************************************)
WorthViews == {0, 10, 192, 1000}
WorthLikes == 0..4
WorthComments == {0, 1, 3}

WorthVideo(V, L, C) ==
    [present |-> TRUE, absent |-> {}, view_count |-> V, like_count |-> L,
     comment_count |-> C, published_at |-> Published("date", 100),
     duration |-> Duration("iso", 0, 5, 0), tag_count |-> 0,
     description_length |-> 0, caption |-> "false"]

WorthSlots == {"base", "one_like", "five_likes", "one_comment"}

\* the record scored in a slot
Bump(v, slot) ==
    CASE slot = "base" -> v
      [] slot = "one_like" -> [v EXCEPT !.like_count = @ + 1]
      [] slot = "five_likes" -> [v EXCEPT !.like_count = @ + 5]
      [] slot = "one_comment" -> [v EXCEPT !.comment_count = @ + 1]

\* main.py:811-850: the "engagement_score" values the scorer can return
EngagementScoresOf(v) ==
    {r.engagement_metrics.engagement_score :
        r \in {x \in calculate_engagement_metrics(get(v)) : ~x.raised}}

InitWorth ==
    /\ hashseed = <<0>>
    /\ text = <<>>
    /\ cleaned = <<<<>>>>
    /\ video \in {WorthVideo(V, L, C) :
                    V \in WorthViews, L \in WorthLikes, C \in WorthComments}
    /\ scored = [slot \in WorthSlots |-> <<>>]

\* main.py:811-850 called on the record of the slot
ScoreWorth(slot) ==
    /\ scored[slot] = <<>>
    /\ \E es \in EngagementScoresOf(Bump(video, slot)) :
          scored' = [scored EXCEPT ![slot] = <<es>>]
    /\ UNCHANGED <<hashseed, text, cleaned, video>>

NextWorth == \E slot \in WorthSlots : ScoreWorth(slot)

SpecWorth == InitWorth /\ [][NextWorth]_vars

WorthScored(slot) == scored[slot] # <<>>

\* 2*100*(L+5)/V + 10*100*C/V < 100 for the record at hand, with V > 0
Unclamped ==
    /\ video.view_count > 0
    /\ 200 * (video.like_count + 5) + 1000 * video.comment_count
          < 100 * video.view_count

\* engagement_score does not decrease with one like more, nor with one
\* comment more
WorthMonotone ==
    /\ WorthScored("base") /\ WorthScored("one_like")
          => QLe(scored["base"][1], scored["one_like"][1])
    /\ WorthScored("base") /\ WorthScored("one_comment")
          => QLe(scored["base"][1], scored["one_comment"][1])

\* C20: in the unclamped range (V > 0 and 200(L+5)/V + 1000C/V < 100) the
\* engagement_score returned for (V, L+5, C) equals the one returned for
\* (V, L, C+1), one comment being worth five likes, and the engagement_score
\* returned never decreases when L or C grows by one.
C20_CommentWorthFiveLikes ==
    /\ Unclamped /\ WorthScored("five_likes") /\ WorthScored("one_comment")
          => scored["five_likes"][1] = scored["one_comment"][1]
    /\ WorthMonotone

\* the exact score of the record with five likes more, which is also the
\* exact score of the record with one comment more
WorthExact ==
    Q(200 * (video.like_count + 5) + 1000 * video.comment_count, video.view_count)

\* a and b are the two hundredths next to x, which lies halfway between them
NeighboursOfTie(a, b, x) ==
    /\ QAbs(QSub(a, b)) = Q(1, 100)
    /\ QAdd(a, b) = QMul(QInt(2), x)

\* C20 as amended: in the unclamped range the engagement_score returned for
\* (V, L+5, C) and the one returned for (V, L, C+1) are equal, unless the
\* exact score 200(L+5)/V + 1000C/V lies halfway between two hundredths,
\* where the two may be the two neighbouring hundredths; and the
\* engagement_score returned never decreases when L or C grows by one.
C20_CommentWorthFiveLikesUpToRounding ==
    /\ Unclamped /\ WorthScored("five_likes") /\ WorthScored("one_comment")
          => \/ scored["five_likes"][1] = scored["one_comment"][1]
             \/ NeighboursOfTie(scored["five_likes"][1], scored["one_comment"][1],
                                WorthExact)
    /\ WorthMonotone

\* C20 witness: a record of the unclamped range has been scored as it is and
\* with one like, five likes and one comment more, and the comment raised
\* the score.
C20_Witness ==
    /\ Unclamped
    /\ \A slot \in WorthSlots : WorthScored(slot)
    /\ QLt(scored["base"][1], scored["one_comment"][1])

(***************************************************************************)
(* The scenario text of the extraction, clause by clause, and the texts    *)
(* made of some of its clauses in their order.                             *)
(***************************************************************************)
\* "Contact me at jane@example.com"
ClauseEmail ==
    <<"C","o","n","t","a","c","t"," ","m","e"," ","a","t"," ","j","a","n",
      "e","@","e","x","a","m","p","l","e",".","c","o","m">>
\* " or follow @janedoe on twitter"
ClauseHandle ==
    <<" ","o","r"," ","f","o","l","l","o","w"," ","@","j","a","n","e","d",
      "o","e"," ","o","n"," ","t","w","i","t","t","e","r">>
\* ", linktr.ee skipped"
ClauseLink ==
    <<","," ","l","i","n","k","t","r",".","e","e"," ","s","k","i","p","p",
      "e","d">>
\* ", github.com/janedoe"
ClauseGithub ==
    <<","," ","g","i","t","h","u","b",".","c","o","m","/","j","a","n","e",
      "d","o","e">>

Clauses == <<ClauseEmail, ClauseHandle, ClauseLink, ClauseGithub>>

\* "Contact me at jane@example.com or follow @janedoe on twitter, linktr.ee
\* skipped, github.com/janedoe"
ScenarioText == ClauseEmail \o ClauseHandle \o ClauseLink \o ClauseGithub

ScenarioTexts ==
    {Concat([k \in 1..Len(Clauses) |-> IF k \in S THEN Clauses[k] ELSE <<>>]) :
        S \in SUBSET (1..Len(Clauses))}

\* two runs of the program on a text of the scenario, each with its own hash
\* seed
InitScenario ==
    /\ text \in ScenarioTexts
    /\ hashseed \in [{1, 2} -> Seeds]
    /\ cleaned = [r \in {1, 2} |-> <<>>]
    /\ video = NoVideo
    /\ scored = NotScored

SpecScenario == InitScenario /\ [][NextExtract]_vars

JaneEmail == <<"j","a","n","e","@","e","x","a","m","p","l","e",".","c","o","m">>
JaneDoe == <<"j","a","n","e","d","o","e">>

\* C21: for the scenario text, extract_social_media returns the email list
\* ["jane@example.com"] (exactly one entry), a twitter list that contains
\* "janedoe" and a github list that contains "janedoe".
C21_Scenario ==
    \A r \in DOMAIN cleaned :
        Returned(r) /\ text = ScenarioText =>
            /\ Result(r)["email"] = <<JaneEmail>>
            /\ JaneDoe \in SeqRange(Result(r)["twitter"])
            /\ JaneDoe \in SeqRange(Result(r)["github"])

\* C21 witness: both runs have extracted the scenario text
C21_Witness ==
    /\ text = ScenarioText
    /\ \A r \in DOMAIN cleaned : Returned(r)

(***************************************************************************)
(* The batch run of VideoAnalysisThread, in main.py and in threads.py.     *)
(* In this specification                                                   *)
(*   video    is the thread object: the implementation and the number of   *)
(*            video ids it was constructed with,                           *)
(*   cleaned  the run: its position, the _abort flag, what yt-dlp answered *)
(*            for each item started and the signals emitted so far,        *)
(*   scored   the results dict of run(): "videos" and "summary".           *)
(***************************************************************************)
MaxBatch == 6
\* main.py:1030, threads.py:733: sorted_videos[:5]
TopN == 5

Info(L, C) ==
    [view_count |-> 1000, like_count |-> L, comment_count |-> C,
     duration |-> 300, upload_date |-> Published("basic", 100),
     tag_count |-> 3, description_length |-> 50, subtitles |-> FALSE]

\* what yt-dlp's extract_info does for a video id: it delivers the metadata
\* (of a video of low or of high engagement), delivers nothing, or raises
Answers ==
    {[kind |-> "ok", info |-> Info(50, 10)],
     [kind |-> "ok", info |-> Info(200, 30)],
     [kind |-> "empty"],
     [kind |-> "raise"]}

Implementations == {"main", "threads"}

\* main.py:689-1030 defines no abort() in class VideoAnalysisThread (the def
\* at main.py:1135 is a function of the module); threads.py:735 defines it
HasAbort(impl) == impl = "threads"

\* main.py:706-720, threads.py:509 and 539-549
InitialResults(impl, ids) ==
    [videos |-> <<>>,
     summary |->
        [total_videos |-> IF impl = "main" THEN ids ELSE 0,
         total_views |-> 0, total_likes |-> 0, total_comments |-> 0,
         average_engagement_rate |-> QInt(0),
         engagement_distribution |-> [high |-> 0, medium |-> 0, low |-> 0],
         top_performing_videos |-> <<>>]]

\* main.py:763-809: the record, None (no info), or the NameError raised by
\* the handler of a failed fetch, which names video_id (main.py:808)
FetchMain(answer) ==
    CASE answer.kind = "ok" -> [raised |-> FALSE, none |-> FALSE,
                                video_data |-> get_video_details(answer.info)]
      [] answer.kind = "empty" -> [raised |-> FALSE, none |-> TRUE]
      [] answer.kind = "raise" -> [raised |-> TRUE, none |-> FALSE]

\* threads.py:551-583: the record, or None when there is no info or when the
\* fetch raised (threads.py:581-583)
FetchThreads(answer) ==
    CASE answer.kind = "ok" -> [raised |-> FALSE, none |-> FALSE,
                                video_data |-> _get_video_data(answer.info)]
      [] answer.kind = "empty" -> [raised |-> FALSE, none |-> TRUE]
      [] answer.kind = "raise" -> [raised |-> FALSE, none |-> TRUE]

\* the analysed record as results["videos"] holds it; id: the video's id
Analysed(id, video_data, result) ==
    [id |-> id, view_count |-> get(video_data).view_count,
     like_count |-> get(video_data).like_count,
     comment_count |-> get(video_data).comment_count,
     engagement_metrics |-> result.engagement_metrics,
     performance_analytics |-> result.performance_analytics]

\* a summary update that bumps the "low" counter whatever the video's level
update_summary_statistics_AlwaysLow(results, video_data) ==
    [results EXCEPT
        !.summary.total_views = @ + video_data.view_count,
        !.summary.total_likes = @ + video_data.like_count,
        !.summary.total_comments = @ + video_data.comment_count,
        !.summary.engagement_distribution["low"] = @ + 1]

\* main.py:1000-1010, threads.py:703-713
update_summary_statistics(results, video_data) ==
    LET engagement_level == video_data.engagement_metrics.engagement_level
    IN [results EXCEPT
           !.summary.total_views = @ + video_data.view_count,
           !.summary.total_likes = @ + video_data.like_count,
           !.summary.total_comments = @ + video_data.comment_count,
           !.summary.engagement_distribution[engagement_level] = @ + 1]

RECURSIVE sorted_Unstable(_)
\* a descending sort that puts a video before the earlier videos of its score
sorted_Unstable(videos) ==
    IF Len(videos) = 0 THEN <<>>
    ELSE LET rest == sorted_Unstable(SubSeq(videos, 1, Len(videos) - 1))
             last == videos[Len(videos)]
             before == {k \in 1..Len(rest) :
                          QLt(last.performance_analytics.performance_score,
                              rest[k].performance_analytics.performance_score)}
             at == Cardinality(before)
         IN SubSeq(rest, 1, at) \o <<last>> \o SubSeq(rest, at + 1, Len(rest))

RECURSIVE sorted(_)
\* sorted(videos, key=performance_score, reverse=True): a stable sort, videos
\* of equal score keep their order
sorted(videos) ==
    IF Len(videos) = 0 THEN <<>>
    ELSE LET rest == sorted(SubSeq(videos, 1, Len(videos) - 1))
             last == videos[Len(videos)]
             before == {k \in 1..Len(rest) :
                          QLe(last.performance_analytics.performance_score,
                              rest[k].performance_analytics.performance_score)}
             at == Cardinality(before)
         IN SubSeq(rest, 1, at) \o <<last>> \o SubSeq(rest, at + 1, Len(rest))

\* main.py:1012-1030, threads.py:715-733: the results the call can leave
calculate_final_summary(results) ==
    LET total_views == results.summary.total_views
        total_likes == results.summary.total_likes
        total_comments == results.summary.total_comments
        avg_engagement_rate ==
            IF total_views > 0
            THEN Q((total_likes + total_comments) * 100, total_views)
            ELSE QInt(0)
        sorted_videos == sorted(results.videos)
    IN {[results EXCEPT
            !.summary.average_engagement_rate = rate,
            !.summary.top_performing_videos =
                SubSeq(sorted_videos, 1, Min(TopN, Len(sorted_videos)))] :
          rate \in round2(avg_engagement_rate)}

InitBatch ==
    /\ hashseed = <<0>>
    /\ text = <<>>
    /\ video \in [impl : Implementations, ids : 0..MaxBatch]
    /\ cleaned = [pc |-> "start", i |-> 1, _abort |-> FALSE,
                  abort_called |-> FALSE, fetched |-> <<>>, emitted |-> <<>>,
                  progress |-> <<>>]
    /\ scored = <<>>

\* main.py:704-720, threads.py:505-509
StartRun ==
    /\ cleaned.pc = "start"
    /\ cleaned' = [cleaned EXCEPT !.pc = "loop"]
    /\ scored' = InitialResults(video.impl, video.ids)
    /\ UNCHANGED <<hashseed, text, video>>

\* the state of the run after an item that answered with `answer`, was
\* analysed or not, and left `results`
AfterItem(answer, analysed, results) ==
    /\ cleaned' = [cleaned EXCEPT
                      !.i = @ + 1,
                      !.progress = Append(@, (cleaned.i * 100) \div video.ids),
                      !.fetched = Append(@, [kind |-> answer.kind,
                                             analysed |-> analysed,
                                             after_abort |-> cleaned.abort_called])]
    /\ scored' = results

\* the run ends with the error signal (main.py:760-761)
Fails(answer) ==
    /\ cleaned' = [cleaned EXCEPT
                      !.pc = "done",
                      !.progress = Append(@, (cleaned.i * 100) \div video.ids),
                      !.fetched = Append(@, [kind |-> answer.kind,
                                             analysed |-> FALSE,
                                             after_abort |-> cleaned.abort_called]),
                      !.emitted = Append(@, "error")]
    /\ UNCHANGED scored

\* main.py:722-753: one turn of the loop of run()
ItemMain ==
    /\ video.impl = "main"
    /\ cleaned.pc = "loop" /\ cleaned.i <= video.ids
    /\ IF cleaned._abort
       THEN cleaned' = [cleaned EXCEPT !.pc = "done"] /\ UNCHANGED scored
       ELSE \E answer \in Answers :
              LET fetch == FetchMain(answer)
              IN IF fetch.raised THEN Fails(answer)
                 ELSE IF fetch.none THEN AfterItem(answer, FALSE, scored)
                 ELSE \E result \in run_scoring(get(fetch.video_data)) :
                        IF result.raised THEN Fails(answer)
                        ELSE LET video_data ==
                                    Analysed(cleaned.i, fetch.video_data, result)
                             IN AfterItem(answer, TRUE,
                                    update_summary_statistics(
                                        [scored EXCEPT !.videos = Append(@, video_data)],
                                        video_data))
    /\ UNCHANGED <<hashseed, text, video>>

\* threads.py:512-531: one turn of the loop of run()
ItemThreads ==
    /\ video.impl = "threads"
    /\ cleaned.pc = "loop" /\ cleaned.i <= video.ids
    /\ IF cleaned._abort
       THEN cleaned' = [cleaned EXCEPT !.pc = "final"] /\ UNCHANGED scored
       ELSE \E answer \in Answers :
              LET fetch == FetchThreads(answer)
              IN IF fetch.none THEN AfterItem(answer, FALSE, scored)
                 ELSE \E result \in _analyze_video(get(fetch.video_data)) :
                        IF result.raised THEN AfterItem(answer, FALSE, scored)
                        ELSE LET analyzed_video ==
                                    Analysed(cleaned.i, fetch.video_data, result)
                             IN AfterItem(answer, TRUE,
                                    update_summary_statistics(
                                        [scored EXCEPT !.videos = Append(@, analyzed_video)],
                                        analyzed_video))
    /\ UNCHANGED <<hashseed, text, video>>

\* main.py:755-758, threads.py:533-535: after the loop, the final summary and
\* the result_ready signal
FinishRun ==
    /\ \/ cleaned.pc = "final"
       \/ cleaned.pc = "loop" /\ cleaned.i > video.ids
    /\ \E results \in calculate_final_summary(scored) : scored' = results
    /\ cleaned' = [cleaned EXCEPT !.pc = "done",
                                  !.emitted = Append(@, "result_ready")]
    /\ UNCHANGED <<hashseed, text, video>>

\* the owner of the thread calls abort() on it while it runs; on an object
\* without the method the call raises AttributeError in the caller and the
\* flag stays as it is
CallAbort ==
    /\ cleaned.pc # "done" /\ ~cleaned.abort_called
    /\ cleaned' = [cleaned EXCEPT
                      !.abort_called = TRUE,
                      !._abort = IF HasAbort(video.impl) THEN TRUE ELSE @]
    /\ UNCHANGED <<hashseed, text, video, scored>>

NextBatch == StartRun \/ ItemMain \/ ItemThreads \/ FinishRun \/ CallAbort

SpecBatch == InitBatch /\ [][NextBatch]_vars

ResultReady == cleaned.emitted = <<"result_ready">>
Distribution == scored.summary.engagement_distribution

\* C22: whenever result_ready is emitted, summary.total_videos (shown as
\* "Total Videos Analyzed") is the number of videos in results["videos"], and
\* so the sum of the three engagement_distribution counters.
C22_TotalVideosIsAnalysedCount ==
    ResultReady =>
        /\ scored.summary.total_videos = Len(scored.videos)
        /\ scored.summary.total_videos
              = Distribution.high + Distribution.medium + Distribution.low

Fetched(kind) == {k \in 1..Len(cleaned.fetched) : cleaned.fetched[k].kind = kind}
RunEnded == cleaned.pc = "done"

\* C23: a fetch that raises is isolated: a run that was not aborted and in
\* which the fetch of some video raised ends with result_ready (not error)
\* after having fetched every video of the batch, and results["videos"]
\* holds every video whose metadata was delivered.
C23_FetchFailureIsolated ==
    RunEnded /\ ~cleaned.abort_called /\ Fetched("raise") # {} =>
        /\ ResultReady
        /\ Len(cleaned.fetched) = video.ids
        /\ \A k \in Fetched("ok") : cleaned.fetched[k].analysed
        /\ Len(scored.videos) = Cardinality(Fetched("ok"))

(***************************************************************************)
(* A video search and the start of the video analysis from its results.    *)
(* In this specification                                                   *)
(*   cleaned  is the YouTubeSearchThread: its search type, the entries     *)
(*            yt-dlp answers with (their ids, "" for an entry without id)  *)
(*            and the payload it emitted,                                  *)
(*   scored   the MainWindow: self.results and what start_video_analysis   *)
(*            did.                                                         *)
(***************************************************************************)
MaxEntries == 3
EntryIds == {"", "a", "b"}

RECURSIVE SeqsUpTo(_, _)
SeqsUpTo(S, n) ==
    IF n = 0 THEN {<<>>}
    ELSE LET shorter == SeqsUpTo(S, n - 1)
         IN shorter \cup {Append(s, x) : s \in shorter, x \in S}

\* threads.py:65-82: the item built for an entry; it has the keys "id" and
\* "snippet" and no key "kind"
SearchItem(search_type, entry_id) ==
    [id |-> [videoId |-> IF search_type = "video" THEN entry_id ELSE "",
             channelId |-> ""],
     snippet |-> [title |-> "", description |-> ""]]

\* d.get(key, default)
Get(d, key, default) == IF key \in DOMAIN d THEN d[key] ELSE default

RECURSIVE extract_video_ids(_)
\* utils.py:214-238, gui.py:613-629
extract_video_ids(results) ==
    IF Len(results) = 0 THEN <<>>
    ELSE LET result == Head(results)
             video_id == Get(Get(result, "id", <<>>), "videoId", "")
             found ==
                 IF Get(result, "kind", "None") = "youtube#video"
                 THEN video_id # ""
                 ELSE IF Get(result, "kind", "None") = "youtube#searchResult"
                 THEN Get(Get(result, "id", <<>>), "kind", "None") = "youtube#video"
                      /\ video_id # ""
                 ELSE FALSE
         IN (IF found THEN <<video_id>> ELSE <<>>) \o extract_video_ids(Tail(results))

InitSearch ==
    /\ hashseed = <<0>>
    /\ text = <<>>
    /\ video = NoVideo
    /\ cleaned \in [search_type : {"video", "channel"},
                    entries : SeqsUpTo(EntryIds, MaxEntries),
                    payload : {<<>>}]
    /\ scored = [results |-> <<>>, delivered |-> FALSE, analysis |-> <<>>]

\* threads.py:44-86: YouTubeSearchThread.run emits result_ready with the items
SearchRun ==
    /\ cleaned.payload = <<>>
    /\ cleaned' = [cleaned EXCEPT !.payload =
          <<[type |-> cleaned.search_type,
             items |-> [k \in 1..Len(cleaned.entries) |->
                           SearchItem(cleaned.search_type, cleaned.entries[k])]]>>]
    /\ UNCHANGED <<hashseed, text, video, scored>>

\* gui.py:234-238: MainWindow.search_done
search_done ==
    /\ cleaned.payload # <<>> /\ ~scored.delivered
    /\ scored' = [scored EXCEPT !.results = @ \o cleaned.payload[1].items,
                                !.delivered = TRUE]
    /\ UNCHANGED <<hashseed, text, video, cleaned>>

\* gui.py:589-611: MainWindow.start_video_analysis shows "No videos found for
\* analysis" or starts a VideoAnalysisThread over the ids
start_video_analysis ==
    /\ scored.analysis = <<>>
    /\ LET video_ids == extract_video_ids(scored.results)
       IN scored' = [scored EXCEPT !.analysis =
             IF video_ids = <<>>
             THEN <<[started |-> FALSE, after_search |-> scored.delivered]>>
             ELSE <<[started |-> TRUE, after_search |-> scored.delivered,
                     video_ids |-> video_ids]>>]
    /\ UNCHANGED <<hashseed, text, video, cleaned>>

NextSearch == SearchRun \/ search_done \/ start_video_analysis

SpecSearch == InitSearch /\ [][NextSearch]_vars

RECURSIVE DeliveredVideoIds(_)
\* the non-empty videoIds of the items, in order
DeliveredVideoIds(items) ==
    IF Len(items) = 0 THEN <<>>
    ELSE (IF Head(items).id.videoId # "" THEN <<Head(items).id.videoId>> ELSE <<>>)
         \o DeliveredVideoIds(Tail(items))

\* C24: once a search has delivered its items to search_done,
\* start_video_analysis starts a VideoAnalysisThread over exactly the
\* non-empty videoIds of the items, in result order, and shows "No videos
\* found for analysis" only when no item with a videoId was delivered.
C24_SearchedVideosAnalysed ==
    scored.analysis # <<>> /\ scored.analysis[1].after_search =>
        LET delivered == DeliveredVideoIds(scored.results)
        IN IF delivered = <<>> THEN ~scored.analysis[1].started
           ELSE /\ scored.analysis[1].started
                /\ scored.analysis[1].video_ids = delivered

(***************************************************************************)
(* The batch run of RelatedVideosThread, in main.py and in threads.py.     *)
(* video and cleaned are as for the video analysis; scored is the results  *)
(* dict of run().                                                          *)
(***************************************************************************)
\* what yt-dlp does for a video id
FetchKinds == {"ok", "empty", "raise"}

\* main.py:1157-1168: the summary has these keys and no others
RelatedSummary(ids) ==
    [total_source_videos |-> ids, total_related_videos |-> 0,
     total_recommendations |-> 0, average_related_per_video |-> 0,
     top_recommendations |-> <<>>]

InitRelated ==
    /\ hashseed = <<0>>
    /\ text = <<>>
    /\ video \in [impl : Implementations, ids : 0..MaxBatch]
    /\ cleaned = [pc |-> "loop", i |-> 1, _abort |-> FALSE,
                  abort_called |-> FALSE, fetched |-> <<>>, emitted |-> <<>>]
    /\ scored = IF video.impl = "main"
                THEN [source_videos |-> <<>>, summary |-> RelatedSummary(video.ids)]
                ELSE [related |-> <<>>]

\* main.py:1170-1197: one turn of the loop; get_video_details and
\* get_related_videos catch what yt-dlp raises (main.py:1243-1245)
RelatedItemMain ==
    /\ video.impl = "main"
    /\ cleaned.pc = "loop" /\ cleaned.i <= video.ids
    /\ IF cleaned._abort
       THEN cleaned' = [cleaned EXCEPT !.pc = "done"] /\ UNCHANGED scored
       ELSE \E kind \in FetchKinds :
              /\ cleaned' = [cleaned EXCEPT !.i = @ + 1, !.fetched = Append(@, kind)]
              /\ scored' = IF kind = "ok"
                           THEN [scored EXCEPT !.source_videos = Append(@, cleaned.i)]
                           ELSE scored
    /\ UNCHANGED <<hashseed, text, video>>

\* threads.py:757-772: one turn of the loop; _get_related_videos returns []
\* when yt-dlp raises or delivers nothing (threads.py:809-811)
RelatedItemThreads ==
    /\ video.impl = "threads"
    /\ cleaned.pc = "loop" /\ cleaned.i <= video.ids
    /\ IF cleaned._abort
       THEN cleaned' = [cleaned EXCEPT !.pc = "final"] /\ UNCHANGED scored
       ELSE \E kind \in FetchKinds :
              /\ cleaned' = [cleaned EXCEPT !.i = @ + 1, !.fetched = Append(@, kind)]
              /\ scored' = [scored EXCEPT !.related =
                               Append(@, [id |-> cleaned.i, found |-> kind = "ok"])]
    /\ UNCHANGED <<hashseed, text, video>>

\* main.py:1199-1209: after the loop run() reads
\* results["summary"]["unique_channels"]; a missing key raises KeyError, which
\* the outer handler turns into the error signal.  threads.py:774: result_ready
RelatedFinish ==
    /\ \/ cleaned.pc = "final"
       \/ cleaned.pc = "loop" /\ cleaned.i > video.ids
    /\ cleaned' = [cleaned EXCEPT
          !.pc = "done",
          !.emitted = Append(@,
              IF video.impl = "main" /\ "unique_channels" \notin DOMAIN scored.summary
              THEN "error" ELSE "result_ready")]
    /\ UNCHANGED <<hashseed, text, video, scored>>

\* main.py:1448-1449, threads.py:814-815: abort()
RelatedAbort ==
    /\ cleaned.pc # "done" /\ ~cleaned.abort_called
    /\ cleaned' = [cleaned EXCEPT !.abort_called = TRUE, !._abort = TRUE]
    /\ UNCHANGED <<hashseed, text, video, scored>>

NextRelated == RelatedItemMain \/ RelatedItemThreads \/ RelatedFinish \/ RelatedAbort

SpecRelated == InitRelated /\ [][NextRelated]_vars

\* C25: a run that is not aborted ends with exactly one terminal signal, and
\* for a RelatedVideosThread run over a non-empty list of videos whose
\* fetches all succeed that signal is result_ready.
C25_OneTerminalSignal ==
    RunEnded /\ ~cleaned.abort_called =>
        /\ Len(cleaned.emitted) = 1
        /\ cleaned.emitted[1] \in {"result_ready", "error"}
        /\ video.ids > 0 /\ (\A k \in 1..Len(cleaned.fetched) : cleaned.fetched[k] = "ok")
              => cleaned.emitted = <<"result_ready">>

\* C26: abort() can be called on a VideoAnalysisThread and sets its _abort
\* flag, and once it has been called the run loop starts no further item:
\* no item is fetched (and no progress emitted for it) after the call.
C26_AbortStopsBatch ==
    /\ cleaned.abort_called => cleaned._abort
    /\ \A k \in 1..Len(cleaned.fetched) : ~cleaned.fetched[k].after_abort

\* C27: the two implementations agree on the engagement stage: for every
\* record scored by both, main.py's calculate_engagement_metrics and
\* threads.py's _analyze_video return the same engagement_score and the same
\* engagement_level.
C27_SameEngagementStage ==
    /\ MainScored /\ ThreadsScored
    /\ ~MainResult.raised /\ ~ThreadsResult.raised
    => /\ MainResult.engagement_metrics.engagement_score
            = ThreadsResult.engagement_metrics.engagement_score
       /\ MainResult.engagement_metrics.engagement_level
            = ThreadsResult.engagement_metrics.engagement_level

RECURSIVE SumOf(_, _)
\* the sum of a count over the videos
SumOf(videos, key) ==
    IF Len(videos) = 0 THEN 0 ELSE videos[1][key] + SumOf(Tail(videos), key)

WithLevel(level) ==
    {k \in 1..Len(scored.videos) :
        scored.videos[k].engagement_metrics.engagement_level = level}

\* C28: whenever result_ready is emitted, total_views, total_likes and
\* total_comments are the sums of view_count, like_count and comment_count
\* over results["videos"], every video is counted in the one
\* engagement_distribution bucket of its engagement_level, and
\* average_engagement_rate is 100*(total_likes+total_comments)/total_views
\* rounded to 2 decimals, or 0 when total_views = 0.
C28_SummaryMatchesVideos ==
    ResultReady =>
        LET summary == scored.summary
            views == SumOf(scored.videos, "view_count")
            likes == SumOf(scored.videos, "like_count")
            comments == SumOf(scored.videos, "comment_count")
        IN /\ summary.total_views = views
           /\ summary.total_likes = likes
           /\ summary.total_comments = comments
           /\ \A level \in {"high", "medium", "low"} :
                 Distribution[level] = Cardinality(WithLevel(level))
           /\ IF views = 0 THEN summary.average_engagement_rate = QInt(0)
              ELSE NearestHundredth(summary.average_engagement_rate,
                                    100 * (likes + comments), views)

\* C28 witness: main.py has emitted result_ready for a batch with analysed
\* videos of high and of low engagement and a video that was not delivered.
C28_Witness ==
    /\ ResultReady /\ video.impl = "main"
    /\ WithLevel("high") # {} /\ WithLevel("low") # {}
    /\ Fetched("empty") # {}

TopPerforming == scored.summary.top_performing_videos

ScoreOf(v) == v.performance_analytics.performance_score

\* the place in results["videos"] of the t-th top performing video
PlaceOf(t) == CHOOSE k \in 1..Len(scored.videos) : scored.videos[k] = TopPerforming[t]

\* C29: summary.top_performing_videos has min(5, number of analysed videos)
\* entries, every entry is one of results["videos"], the entries are in
\* non-increasing performance_score order with ties in analysis order, and
\* no analysed video left out has a strictly higher performance_score than
\* an included one.
C29_TopFiveByPerformance ==
    ResultReady =>
        LET videos == scored.videos
            top == TopPerforming
            included == {PlaceOf(t) : t \in 1..Len(top)}
        IN /\ Len(top) = Min(5, Len(videos))
           /\ \A t \in 1..Len(top) : \E k \in 1..Len(videos) : videos[k] = top[t]
           /\ Cardinality(included) = Len(top)
           /\ \A t \in 1..(Len(top) - 1) :
                 /\ QLe(ScoreOf(top[t + 1]), ScoreOf(top[t]))
                 /\ ScoreOf(top[t + 1]) = ScoreOf(top[t])
                       => PlaceOf(t) < PlaceOf(t + 1)
           /\ \A k \in (1..Len(videos)) \ included : \A t \in 1..Len(top) :
                 QLe(ScoreOf(videos[k]), ScoreOf(top[t]))

\* C29 witness: main.py has emitted result_ready for six analysed videos
\* that were not analysed in score order; the five listed ones hold two of
\* equal score and two of different scores, and one video is left out.
C29_Witness ==
    /\ ResultReady /\ video.impl = "main"
    /\ Len(scored.videos) = 6 /\ Len(TopPerforming) = 5
    /\ \E k \in 1..5 : QLt(ScoreOf(scored.videos[k]), ScoreOf(scored.videos[k + 1]))
    /\ \E t \in 1..4 : ScoreOf(TopPerforming[t]) = ScoreOf(TopPerforming[t + 1])
    /\ \E t \in 1..4 : QLt(ScoreOf(TopPerforming[t + 1]), ScoreOf(TopPerforming[t]))

(***************************************************************************)
(* CSV export: flatten_item turns one API item into a row, export_csv      *)
(* writes the header and the row of every item of the results              *)
(***************************************************************************)
NoDict == [key \in {} |-> ""]

\* the mappings that hold key with one of the values, or do not hold it
Maybe(key, values) == {NoDict} \cup {key :> value : value \in values}

Descriptions == {<<>>, ClauseEmail, ClauseEmail \o ClauseHandle}

Snippets ==
    {title @@ channelTitle @@ publishedAt @@ description :
        title \in Maybe("title", {"t"}),
        channelTitle \in Maybe("channelTitle", {"c"}),
        publishedAt \in Maybe("publishedAt", {"2024-01-01"}),
        description \in Maybe("description", Descriptions)}

Statistics ==
    {NoDict, "viewCount" :> "10",
     ("viewCount" :> "10") @@ ("subscriberCount" :> "3")}

Items ==
    {kind @@ id @@ snippet @@ statistics :
        kind \in Maybe("kind", {"youtube#video", "youtube#channel",
                                "youtube#playlist"}),
        id \in Maybe("id", {"a"}),
        snippet \in Maybe("snippet", Snippets),
        statistics \in Maybe("statistics", Statistics)}

\* gui.py:876-879
CsvHeader ==
    <<"type", "id", "title", "channel", "published", "description",
      "viewCount", "subscriberCount", "email", "twitter", "instagram",
      "facebook", "tiktok", "discord", "telegram", "website", "phone">>

KeyError == [raised |-> TRUE]
Row(fields) == [raised |-> FALSE, row |-> fields]

\* the nine social_media.get(key, "") fields of a row
SocialFields(social_media) ==
    <<Get(social_media, "email", ""), Get(social_media, "twitter", ""),
      Get(social_media, "instagram", ""), Get(social_media, "facebook", ""),
      Get(social_media, "tiktok", ""), Get(social_media, "discord", ""),
      Get(social_media, "telegram", ""), Get(social_media, "website", ""),
      Get(social_media, "phone", "")>>

\* a flatten_item whose video row has no subscriberCount field
flatten_item_NoSubscribers(seed, item) ==
    LET kind == Get(item, "kind", "")
        snippet == item["snippet"]
        statistics == Get(item, "statistics", NoDict)
        social_media == extract_social_media(seed, Get(snippet, "description", <<>>))
    IN IF kind = "youtube#video"
       THEN IF \/ "snippet" \notin DOMAIN item \/ "id" \notin DOMAIN item
               \/ {"title", "channelTitle", "publishedAt"} \ DOMAIN snippet # {}
            THEN KeyError
            ELSE Row(<<"video", item["id"], snippet["title"],
                       snippet["channelTitle"], snippet["publishedAt"],
                       Get(snippet, "description", ""),
                       Get(statistics, "viewCount", "")>>
                     \o SocialFields(social_media))
       ELSE IF kind = "youtube#channel"
       THEN IF \/ "snippet" \notin DOMAIN item \/ "id" \notin DOMAIN item
               \/ {"title", "publishedAt"} \ DOMAIN snippet # {}
            THEN KeyError
            ELSE Row(<<"channel", item["id"], snippet["title"],
                       snippet["title"], snippet["publishedAt"],
                       Get(snippet, "description", ""),
                       Get(statistics, "viewCount", ""),
                       Get(statistics, "subscriberCount", "")>>
                     \o SocialFields(social_media))
       ELSE Row(<<"", "", "", "", "", "", "", "", "", "", "", "", "", "", "",
                  "", "">>)

\* utils.py:116-152, gui.py:926-954; item["key"] of a missing key raises
flatten_item(seed, item) ==
    LET kind == Get(item, "kind", "")
        snippet == item["snippet"]
        statistics == Get(item, "statistics", NoDict)
        social_media == extract_social_media(seed, Get(snippet, "description", <<>>))
    IN IF kind = "youtube#video"
       THEN IF \/ "snippet" \notin DOMAIN item \/ "id" \notin DOMAIN item
               \/ {"title", "channelTitle", "publishedAt"} \ DOMAIN snippet # {}
            THEN KeyError
            ELSE Row(<<"video", item["id"], snippet["title"],
                       snippet["channelTitle"], snippet["publishedAt"],
                       Get(snippet, "description", ""),
                       Get(statistics, "viewCount", ""), "">>
                     \o SocialFields(social_media))
       ELSE IF kind = "youtube#channel"
       THEN IF \/ "snippet" \notin DOMAIN item \/ "id" \notin DOMAIN item
               \/ {"title", "publishedAt"} \ DOMAIN snippet # {}
            THEN KeyError
            ELSE Row(<<"channel", item["id"], snippet["title"],
                       snippet["title"], snippet["publishedAt"],
                       Get(snippet, "description", ""),
                       Get(statistics, "viewCount", ""),
                       Get(statistics, "subscriberCount", "")>>
                     \o SocialFields(social_media))
       ELSE Row(<<"", "", "", "", "", "", "", "", "", "", "", "", "", "", "",
                  "", "">>)

NoFile == [written |-> FALSE, rows |-> <<>>, raised |-> FALSE]

\* video: the one item of self.results; cleaned: what flatten_item returned;
\* scored: the rows of the CSV file
InitFlatten ==
    /\ hashseed \in [{1} -> Seeds]
    /\ text = <<>>
    /\ video \in Items
    /\ cleaned = <<>>
    /\ scored = NoFile

\* utils.py:116-152: a call of flatten_item on the item
FlattenItem ==
    /\ cleaned = <<>>
    /\ cleaned' = <<flatten_item(hashseed[1], video)>>
    /\ UNCHANGED <<hashseed, text, video, scored>>

\* gui.py:867-882: the header, then the row of each item of the results
export_csv ==
    /\ ~scored.written
    /\ LET flat == flatten_item(hashseed[1], video)
       IN scored' = [written |-> TRUE,
                     rows |-> IF flat.raised THEN <<CsvHeader>>
                              ELSE <<CsvHeader, flat.row>>,
                     raised |-> flat.raised]
    /\ UNCHANGED <<hashseed, text, video, cleaned>>

NextFlatten == FlattenItem \/ export_csv

SpecFlatten == InitFlatten /\ [][NextFlatten]_vars

Flattened == cleaned # <<>> /\ ~cleaned[1].raised

OtherKind == Get(video, "kind", "") \notin {"youtube#video", "youtube#channel"}

\* C30: flatten_item returns, for every item it accepts, a row of exactly 17
\* fields, the number of columns of the header export_csv writes; an item
\* whose kind is neither "youtube#video" nor "youtube#channel" (or that has
\* no kind) yields a row of 17 empty strings and no error.
C30_RowOfSeventeenFields ==
    /\ Flattened =>
          /\ Len(cleaned[1].row) = 17
          /\ Len(cleaned[1].row) = Len(CsvHeader)
    /\ cleaned # <<>> /\ OtherKind =>
          /\ ~cleaned[1].raised
          /\ cleaned[1].row = [k \in 1..17 |-> ""]
    /\ scored.written =>
          /\ scored.rows[1] = CsvHeader
          /\ \A k \in 1..Len(scored.rows) : Len(scored.rows[k]) = 17
          /\ OtherKind => ~scored.raised

\* C30 witness: flatten_item has returned the row of a video item whose
\* description holds an email address, and export_csv has written it.
C30_Witness ==
    /\ Flattened /\ scored.written /\ Len(scored.rows) = 2
    /\ Get(video, "kind", "") = "youtube#video"
    /\ "statistics" \notin DOMAIN video
    /\ cleaned[1].row[9] # <<>>

====
